---- MODULE Spec2Model ----
(***************************************************************************)
(* A model of the reactive state store of magicbutton/state                *)
(* (src/src/core/state-manager.ts): the atom snapshot, the change-event    *)
(* pipeline (pause, middleware, apply, persist, sync, timeline, atom and   *)
(* selector notification), transactions, and the reconciliation of remote  *)
(* changes.  Several store instances are connected by a broadcast          *)
(* transport.                                                              *)
(***************************************************************************)
EXTENDS Integers, Sequences, FiniteSets, Bags, TLC

(* ------------------------------ bounds --------------------------------- *)

\* Field values are the integers 0..MaxVal.
MaxVal == 1

(* --------------------------- the schema -------------------------------- *)

\* Store instances; a store's name stands for its clientId (nanoid()).
Stores == {"A", "B"}

\* An identity that is no store of the model: some other peer on the transport.
Peer == "P"

\* The schema keys, and their order in Object.entries(config.schema).
Fields == {"a", "b"}

FieldOrder == <<"a", "b">>

\* An atomId that is no key of the schema.
UnknownAtom == "zz"

Values == 0 .. MaxVal

\* A raw input the field validators reject.
Invalid == -1

RawInputs == Values \cup {Invalid}

\* Every field is z.number().int().min(0).default(0): schema.parse(x) returns x
\* for an integer >= 0 and throws a ZodError otherwise.
Validate(f, raw) ==
  IF raw \in Int /\ raw >= 0 THEN [ok |-> TRUE, value |-> raw]
                             ELSE [ok |-> FALSE, value |-> raw]

\* schema.parse(undefined): the field's default.
DefaultValue(f) == 0

(* --------------------------- collaborators ----------------------------- *)

\* How an adapter answers a call: "none" is no adapter configured; "promise"
\* returns a promise (indexedDB, websocket-like custom adapters) that resolves
\* or rejects; "sync" returns undefined (localStorage, sessionStorage, memory,
\* broadcastChannel, sharedWorker) or throws synchronously (a custom adapter).
AdapterKinds == {"none", "promise", "sync"}

\* A custom adapter of one more kind: it returns a promise that resolves, or throws
\* before it has one to return.
Throwing == "throwing"

\* Atom subscriber callbacks and selector subscriber callbacks that only look at
\* what they are given.
Subscribers == {"u1"}

\* Atom subscriber callbacks that write: called with an event whose newValue is not
\* 0, w calls updateAtom(event.atomId, 0) before it returns.
Writers == {"w"}

\* A Set of callbacks is iterated in insertion order: where both are subscribed to a
\* field, w was subscribed first.
CallbackOrder == <<"w", "u1">>

\* The own keys of Object.prototype, which the `in` operator finds in every plain
\* object (toString, hasOwnProperty, valueOf, ... are like it).
ObjectPrototypeKeys == {"constructor"}

\* key in obj
JsIn(key, obj) == key \in DOMAIN obj \/ key \in ObjectPrototypeKeys

\* obj[key]: an own property, or the one inherited from Object.prototype.
JsGet(obj, key) == IF key \in DOMAIN obj THEN obj[key] ELSE "inherited"

\* { ...obj, [key]: value }
JsWith(obj, key, value) ==
  [k \in DOMAIN obj \cup {key} |-> IF k = key THEN value ELSE obj[k]]

\* The selector functions callers register: sel reads field a only.
Selectors == {"sel"}

SelectorReads(sel) == {"a"}

SelectorFn(sel, snapshot) == snapshot["a"]

\* Middleware behaviours: pass the event on, drop it, or pass on a copy whose
\* newValue is replaced.
MwKinds == {"pass", "drop", "set0"}

\* A middleware that serves one change: called, it calls the function addMiddleware
\* returned for it and then next() with the change as it is.
SelfRemoving == {"once"}

\* Middlewares that pass on a copy of the event with another field of it replaced:
\* toB hands on { ...change, atomId: 'b' }, hold hands on
\* { ...change, optimistic: true }.
Rewriting == {"toB", "hold"}

VARIABLES
  state,                  \* state[s]: the current snapshot, Fields -> value
  isPaused,               \* isPaused[s]
  middlewares,            \* middlewares[s]: sequence of middleware kinds
  atomSubscriptions,      \* atomSubscriptions[s][f]: set of callbacks
  selectorCache,          \* selectorCache[s][sel]: [reg, deps]
  selectorSubscriptions,  \* selectorSubscriptions[s][sel]: set of callbacks
  timeline,               \* timeline[s]: sequence of entries
  config,                 \* config[s]: [storage, sync, timeTravel]
  tx,                     \* tx[s]: the store's transaction object
  net,                    \* messages in flight: bag of [to, ev]
  loading,                \* loading[s]: where loadFromStorage of store s is
  stored,                 \* stored[s][f]: what the storage holds under state:f
  captured,               \* captured[s]: the snapshot object a reader kept
  hook,                   \* hook[s]: the state of a component's useTransaction
  disposed,               \* disposed[s]: dispose() was called on the store
  ws,                     \* the variables of a websocketAdapter and its sockets
  last                    \* what the last operation did (observer)

vars == <<state, isPaused, middlewares, atomSubscriptions, selectorCache,
          selectorSubscriptions, timeline, config, tx, net, loading, stored,
          captured, hook, disposed, ws, last>>

(* ----------------------------- change events --------------------------- *)

\* createChangeEvent: the event of a local update of atomId to newValue on store s
\* whose snapshot is snapshot. (timestamp and changeId are not read by the store.)
createChangeEvent(s, snapshot, atomId, newValue, optimistic) ==
  [atomId |-> atomId, prevValue |-> snapshot[atomId], newValue |-> newValue,
   source |-> s, optimistic |-> optimistic]

\* The effects one operation has accumulated so far: the snapshot and timeline it
\* leaves, the snapshot replacements it made (applied), the adapter calls that took
\* effect, the callbacks it invoked, what it logged with console.error, and the
\* exception it is unwinding with; the middleware array as the operation found it
\* (registered) and leaves it, the middlewares it called (ran) and the order its
\* side effects came in (trace).
Run(snapshot, tl, mws) ==
  [state |-> snapshot, timeline |-> tl, middlewares |-> mws, registered |-> mws,
   applied |-> <<>>,
   persisted |-> <<>>, sent |-> <<>>,
   notified |-> <<>>, computed |-> <<>>, selNotified |-> <<>>,
   ran |-> <<>>, trace |-> <<>>,
   logged |-> {}, error |-> "none"]

(* ------------------------- middleware pipeline ------------------------- *)

\* A pipeline in which every middleware calls next(), the vetoing one too.
MiddlewareStep_callsNext(kind, cur) ==
  IF kind = "set0" THEN [next |-> TRUE, change |-> [cur EXCEPT !.newValue = 0]]
                   ELSE [next |-> TRUE, change |-> cur]

\* One middleware applied to the current change: the change it hands to next(),
\* or no call of next() at all.
MiddlewareStep(kind, cur) ==
  CASE kind = "pass" -> [next |-> TRUE, change |-> cur]
    [] kind = "drop" -> [next |-> FALSE, change |-> cur]
    [] kind = "set0" -> [next |-> TRUE, change |-> [cur EXCEPT !.newValue = 0]]
    [] kind = "toB" -> [next |-> TRUE, change |-> [cur EXCEPT !.atomId = "b"]]
    [] kind = "hold" -> [next |-> TRUE, change |-> [cur EXCEPT !.optimistic = TRUE]]
    [] OTHER -> [next |-> TRUE, change |-> cur]

\* middlewares.splice(index, 1)
Splice(mws, index) == SubSeq(mws, 1, index - 1) \o SubSeq(mws, index + 1, Len(mws))

\* applyMiddlewares(index, currentChange): runs the middlewares from index on, in
\* order; done is TRUE when the last next() was called, with the change it got.
RECURSIVE applyMiddlewaresFrom(_, _, _, _)
applyMiddlewaresFrom(mws, index, cur, ran) ==
  IF index > Len(mws)
    THEN [done |-> TRUE, change |-> cur, middlewares |-> mws, ran |-> ran]
  ELSE LET r == MiddlewareStep(mws[index], cur)
           left == IF mws[index] \in SelfRemoving THEN Splice(mws, index) ELSE mws
       IN IF r.next
            THEN applyMiddlewaresFrom(left, index + 1, r.change, Append(ran, mws[index]))
            ELSE [done |-> FALSE, change |-> cur, middlewares |-> left,
                  ran |-> Append(ran, mws[index])]

applyMiddlewares(mws, index, cur) == applyMiddlewaresFrom(mws, index, cur, <<>>)

(* ---------------------- the steps of applyChange ----------------------- *)

\* storage.set(`state:${atomKey}`, newValue).catch(...): a promise that resolves
\* stores the value, one that rejects is logged; an adapter that returns undefined
\* has stored the value and then `.catch` of undefined throws a TypeError; an
\* adapter that throws unwinds applyChange.
PersistStep(s, atomKey, cur, R, ok) ==
  CASE config[s].storage = "none" -> R
    [] config[s].storage = "promise" ->
         IF ok THEN [R EXCEPT !.persisted = Append(@, <<atomKey, cur.newValue>>)]
               ELSE [R EXCEPT !.logged = @ \cup {"persist"}]
    [] config[s].storage = "sync" ->
         IF ok THEN [R EXCEPT !.persisted = Append(@, <<atomKey, cur.newValue>>),
                              !.error = "TypeError"]
               ELSE [R EXCEPT !.error = "AdapterError"]
    [] config[s].storage = Throwing ->
         IF ok THEN [R EXCEPT !.persisted = Append(@, <<atomKey, cur.newValue>>)]
               ELSE [R EXCEPT !.error = "AdapterError"]

\* if (sync && !change.optimistic) sync.sendChange(currentChange).catch(...)
SyncStep(s, change, cur, R, ok) ==
  IF config[s].sync = "none" \/ change.optimistic THEN R
  ELSE CASE config[s].sync = "promise" ->
              IF ok THEN [R EXCEPT !.sent = Append(@, cur)]
                    ELSE [R EXCEPT !.logged = @ \cup {"sync"}]
         [] config[s].sync = "sync" ->
              IF ok THEN [R EXCEPT !.sent = Append(@, cur), !.error = "TypeError"]
                    ELSE [R EXCEPT !.error = "AdapterError"]
         [] config[s].sync = Throwing ->
              IF ok THEN [R EXCEPT !.sent = Append(@, cur)]
                    ELSE [R EXCEPT !.error = "AdapterError"]

\* if (config.debug?.timeTravel) timeline.push({snapshot: {...state}, change})
TimelineStep(s, cur, R) ==
  IF config[s].timeTravel
    THEN [R EXCEPT !.timeline = Append(@, [snapshot |-> R.state, change |-> cur]),
                   !.trace = Append(@, "timeline")]
    ELSE R

RECURSIVE updateAtom(_, _, _, _, _, _, _)

\* The loop over the subscribers of atomKey from the i-th on: each is called with the
\* change, its prevValue the value before the replacement and its newValue read from
\* the snapshot at the time of the call; what a callback does it does before the
\* next one is called, and what it throws leaves the loop.
RECURSIVE notifyFrom(_, _, _, _, _, _, _, _)
notifyFrom(s, atomKey, prevValue, cur, i, R, setOk, sendOk) ==
  IF i > Len(CallbackOrder) \/ R.error # "none" THEN R
  ELSE LET u == CallbackOrder[i] IN
       IF u \notin atomSubscriptions[s][atomKey]
         THEN notifyFrom(s, atomKey, prevValue, cur, i + 1, R, setOk, sendOk)
         ELSE LET ev == [cur EXCEPT !.prevValue = prevValue,
                                    !.newValue = R.state[atomKey]]
                  R1 == [R EXCEPT !.notified = Append(@, [to |-> u, ev |-> ev]),
                                  !.trace = Append(@, "subscriber")]
                  R2 == IF u \in Writers /\ ev.newValue # 0
                          THEN updateAtom(s, atomKey, 0, FALSE, R1, setOk, sendOk)
                          ELSE R1
              IN notifyFrom(s, atomKey, prevValue, cur, i + 1, R2, setOk, sendOk)

\* const subscribers = atomSubscriptions.get(String(atomKey)); if (subscribers) ...
NotifyAtomStep(s, atomKey, prevValue, cur, R, setOk, sendOk) ==
  IF atomKey \notin DOMAIN atomSubscriptions[s] THEN R
  ELSE notifyFrom(s, atomKey, prevValue, cur, 1, R, setOk, sendOk)

\* The registered selectors whose dependency set has atomId, in cache order.
SelectorOrder == <<"sel">>

RECURSIVE updateSelectorsFrom(_, _, _, _)
updateSelectorsFrom(s, atomId, i, R) ==
  IF i > Len(SelectorOrder) THEN R
  ELSE LET sel == SelectorOrder[i]
           c == selectorCache[s][sel]
           R1 == IF c.reg /\ atomId \in c.deps
                   THEN LET v == SelectorFn(sel, R.state)
                            Rc == [R EXCEPT !.computed = Append(@, sel),
                                            !.trace = Append(@, "selector")]
                        IN IF selectorSubscriptions[s][sel] = {} THEN Rc
                           ELSE [Rc EXCEPT !.selNotified = Append(@,
                                   [sel |-> sel, to |-> selectorSubscriptions[s][sel],
                                    value |-> v])]
                   ELSE R
       IN updateSelectorsFrom(s, atomId, i + 1, R1)

updateSelectors(s, atomId, R) == updateSelectorsFrom(s, atomId, 1, R)

\* The run after the pipeline p: the middlewares it called, in the order of the
\* calls, and the array as they left it.
Piped(R, p) ==
  [R EXCEPT !.middlewares = p.middlewares, !.ran = @ \o p.ran,
            !.trace = @ \o [i \in 1 .. Len(p.ran) |-> "middleware"]]

\* One more side effect in the order they came in.
Traced(R, step) == [R EXCEPT !.trace = Append(@, step)]

\* The body applyMiddlewares runs once every middleware has called next(): change is
\* the event applyChange was called with, cur the one that came out of the pipeline.
ApplyFinal(s, change, cur, R, setOk, sendOk) ==
  LET atomKey == change.atomId IN
  IF ~JsIn(atomKey, R.state) THEN R
  ELSE
    LET prevValue == JsGet(R.state, atomKey)
        R1 == [R EXCEPT !.state = JsWith(R.state, atomKey, cur.newValue),
                        !.applied = Append(@, <<atomKey, cur.newValue>>),
                        !.trace = Append(@, "snapshot")]
        R2 == PersistStep(s, atomKey, cur,
                          IF config[s].storage = "none" THEN R1
                                                        ELSE Traced(R1, "storage"),
                          setOk[atomKey])
        R3 == IF R2.error # "none" THEN R2
              ELSE SyncStep(s, change, cur,
                            IF config[s].sync = "none" \/ change.optimistic
                              THEN R2 ELSE Traced(R2, "sync"),
                            sendOk[atomKey])
        R4 == IF R3.error # "none" THEN R3 ELSE TimelineStep(s, cur, R3)
        R5 == IF R4.error # "none" THEN R4
              ELSE NotifyAtomStep(s, atomKey, prevValue, cur, R4, setOk, sendOk)
    IN IF R5.error # "none" THEN R5 ELSE updateSelectors(s, atomKey, R5)

\* applyChange without the look at isPaused: a change is processed whether the
\* store is paused or not.
applyChange_noPause(s, change, R, setOk, sendOk) ==
  LET p == applyMiddlewares(R.middlewares, 1, change)
      R0 == Piped(R, p)
  IN IF p.done THEN ApplyFinal(s, change, p.change, R0, setOk, sendOk) ELSE R0

\* applyChange(change)
applyChange(s, change, R, setOk, sendOk) ==
  IF isPaused[s] THEN R
  ELSE LET p == applyMiddlewares(R.middlewares, 1, change)
           R0 == Piped(R, p)
       IN IF p.done THEN ApplyFinal(s, change, p.change, R0, setOk, sendOk) ELSE R0

\* updateAtom without the validation: the raw value is applied as it is.
updateAtom_noValidate(s, atomId, raw, optimistic, R, setOk, sendOk) ==
  applyChange(s, createChangeEvent(s, R.state, atomId, raw, optimistic), R,
              setOk, sendOk)

\* updateAtom(atomId, value, optimistic): validates, creates the event and applies it;
\* whatever is thrown inside is logged and thrown again to the caller.
updateAtom(s, atomId, raw, optimistic, R, setOk, sendOk) ==
  LET v == Validate(atomId, raw) IN
  IF ~v.ok THEN [R EXCEPT !.error = "ZodError", !.logged = @ \cup {"invalid"}]
  ELSE LET change == createChangeEvent(s, R.state, atomId, v.value, optimistic)
           R1 == applyChange(s, change, R, setOk, sendOk)
       IN IF R1.error # "none" THEN [R1 EXCEPT !.logged = @ \cup {"invalid"}] ELSE R1

(* ------------------------------ observer ------------------------------- *)

\* What one operation did, as its caller, the adapters and the callbacks saw it: pre
\* is the store's snapshot when the operation was called, entries the pending changes
\* of the transaction a commit or rollback was called on (rewritten: its fields
\* updated more than once), txPrev the operation before it, and the rest the effects
\* R it had.
Obs(op, s, atomId, value, optimistic, source, R) ==
  [op |-> op, store |-> s, atomId |-> atomId, value |-> value,
   optimistic |-> optimistic, source |-> source,
   entries |-> <<>>, rewritten |-> {}, txPrev |-> "-",
   pre |-> state[s], applied |-> R.applied,
   persisted |-> R.persisted, sent |-> R.sent,
   notified |-> R.notified, computed |-> R.computed,
   selNotified |-> R.selNotified, logged |-> R.logged, error |-> R.error,
   registered |-> R.registered, ran |-> R.ran, trace |-> R.trace,
   appended |-> Len(R.timeline) - Len(timeline[s])]

\* An operation that runs no part of the change pipeline.
Quiet(op, s) ==
  Obs(op, s, "-", 0, FALSE, "-", Run(state[s], timeline[s], <<>>))

\* Whether an adapter call succeeds (a promise resolves, a synchronous call returns)
\* or fails (a promise rejects, a synchronous call throws).
Outcomes(kind) == IF kind = "none" THEN {TRUE} ELSE BOOLEAN

\* A value the storage holds under a key, or null: <<v>> or <<>>.
Some(v) == <<v>>

Null == <<>>

\* The storage after the set calls that took effect, in order.
RECURSIVE StoredAfter(_, _, _)
StoredAfter(st, writes, i) ==
  IF i > Len(writes) THEN st
  ELSE StoredAfter(IF writes[i][1] \in DOMAIN st
                     THEN [st EXCEPT ![writes[i][1]] = Some(writes[i][2])]
                     ELSE st,
                   writes, i + 1)

\* The store's variables after an operation whose effects are R: a snapshot
\* replacement leaves the object a reader kept behind; what the storage holds is
\* followed for as long as loadFromStorage has reads to make.
Store(s, R) ==
  /\ state' = [state EXCEPT ![s] = R.state]
  /\ timeline' = [timeline EXCEPT ![s] = R.timeline]
  /\ middlewares' = [middlewares EXCEPT ![s] = R.middlewares]
  /\ captured' = IF R.applied = <<>> THEN captured
                 ELSE [captured EXCEPT ![s].current = FALSE]
  /\ stored' = IF loading[s].keys = <<>> THEN stored
               ELSE [stored EXCEPT ![s] = StoredAfter(@, R.persisted, 1)]

(* -------------------------- websocket adapter -------------------------- *)

\* websocketAdapter(url) as created: socket = null, isConnected = false,
\* reconnectTimer = null. socks are the WebSocket objects made so far, each
\* "connecting", "open", "closing" or "closed"; socket is the index of the one the
\* adapter's variable refers to, 0 for null; timers counts the timeouts that are
\* set and have neither fired nor been cleared; closed says that close() was
\* called, with atClose sockets made by then.
NewAdapter ==
  [socks |-> <<>>, socket |-> 0, isConnected |-> FALSE, reconnectTimer |-> FALSE,
   timers |-> 0, closed |-> FALSE, atClose |-> 0]

\* connect(): nothing when socket is set; else new WebSocket(url) becomes the
\* socket, or throws, which is logged.
connect(w, ok) ==
  IF w.socket # 0 \/ ~ok THEN w
  ELSE [w EXCEPT !.socks = Append(@, "connecting"), !.socket = Len(w.socks) + 1]

\* socket.onclose: isConnected = false, socket = null, and a reconnect timer is
\* set when reconnectTimer is null.
onclose(w) ==
  [w EXCEPT !.isConnected = FALSE, !.socket = 0,
            !.reconnectTimer = TRUE,
            !.timers = IF w.reconnectTimer THEN @ ELSE @ + 1]

\* socket.close() on the i-th WebSocket: a connecting or open one starts closing,
\* its close event comes later.
socketClose(w, i) ==
  IF w.socks[i] \in {"connecting", "open"} THEN [w EXCEPT !.socks[i] = "closing"]
                                            ELSE w

(* ------------------------------- Init ---------------------------------- *)

\* The transaction object transaction() returns: both maps empty (a Map keeps its
\* keys in insertion order: a sequence of <<key, value>>). rewritten is the set of
\* fields update was called for more than once.
NewTransaction ==
  [changes |-> <<>>, previousValues |-> <<>>, rewritten |-> {}]

\* A store created without storageAdapter, syncAdapter and debug.timeTravel.
NoAdapters == [storage |-> "none", sync |-> "none", timeTravel |-> FALSE]

\* useTransaction on its first render: useState(null), useState(false).
NoTransaction == [transaction |-> FALSE, isActive |-> FALSE]

\* No reader keeps a snapshot object of the store.
NotCaptured ==
  [held |-> FALSE, current |-> FALSE,
   seen |-> [f \in Fields |-> DefaultValue(f)],
   now |-> [f \in Fields |-> DefaultValue(f)]]

\* loadFromStorage has left its loop: no key is left, no get is pending.
Loaded == [keys |-> <<>>, got |-> Null]

\* createStateManager for the stores of active, each with a configuration of cfgs:
\* every field at its default (no initialState override, nothing loaded from storage
\* yet), no subscriber, no selector, no middleware, not paused.
InitCore(active, cfgs) ==
  /\ state = [s \in Stores |-> [f \in Fields |-> DefaultValue(f)]]
  /\ isPaused = [s \in Stores |-> FALSE]
  /\ middlewares = [s \in Stores |-> <<>>]
  /\ atomSubscriptions = [s \in Stores |-> [f \in Fields |-> {}]]
  /\ selectorCache = [s \in Stores |-> [sel \in Selectors |-> [reg |-> FALSE, deps |-> {}]]]
  /\ selectorSubscriptions = [s \in Stores |-> [sel \in Selectors |-> {}]]
  /\ timeline = [s \in Stores |-> <<>>]
  /\ \E c \in [active -> cfgs] :
       config = [s \in Stores |-> IF s \in active THEN c[s] ELSE NoAdapters]
  /\ tx = [s \in Stores |-> NewTransaction]
  /\ net = EmptyBag
  /\ captured = [s \in Stores |-> NotCaptured]
  /\ hook = [s \in Stores |-> NoTransaction]
  /\ disposed = [s \in Stores |-> FALSE]
  /\ ws = NewAdapter
  /\ last = [Quiet("init", "A") EXCEPT !.pre = [f \in Fields |-> DefaultValue(f)]]

\* A store whose storage held nothing, after loadFromStorage has run to its end.
InitStore(active, cfgs) ==
  /\ InitCore(active, cfgs)
  /\ stored = [s \in Stores |-> [f \in Fields |-> Null]]
  /\ loading = [s \in Stores |-> Loaded]

(* ---------------------------- initial state --------------------------- *)

\* The keys a caller's initialState may have, in the order Object.entries gives
\* them: the schema's fields, a key outside the schema, a key of Object.prototype.
OverrideOrder == FieldOrder \o <<UnknownAtom, "constructor">>

\* The initialState objects: any of these keys, a field with any raw value (the
\* value given for another key is never looked at).
Overrides ==
  UNION {{ov \in [K -> RawInputs] : \A k \in K \ Fields : ov[k] = DefaultValue(k)} :
           K \in SUBSET {OverrideOrder[i] : i \in 1 .. Len(OverrideOrder)}}

\* Object.entries(config.initialState)
Entries(ov) ==
  LET keys == SelectSeq(OverrideOrder, LAMBDA k : k \in DOMAIN ov)
  IN [i \in 1 .. Len(keys) |-> <<keys[i], ov[keys[i]]>>]

\* The override loop with the raw value assigned as it is.
RECURSIVE initialize_noValidate(_, _, _)
initialize_noValidate(init, entries, i) ==
  IF i > Len(entries) THEN init
  ELSE LET key == entries[i][1] IN
       initialize_noValidate(
         IF key \in DOMAIN init.state
           THEN [init EXCEPT !.state[key] = entries[i][2]] ELSE init,
         entries, i + 1)

\* The override loop of createStateManager from the i-th entry on: a key that is
\* `in` initialState is validated by its atom and assigned; what validate throws is
\* caught and logged, and so is the TypeError of calling the validate that a key
\* found on Object.prototype does not have.
RECURSIVE initialize(_, _, _)
initialize(init, entries, i) ==
  IF i > Len(entries) THEN init
  ELSE LET key == entries[i][1]
           v == IF key \in Fields THEN Validate(key, entries[i][2])
                                 ELSE [ok |-> FALSE, value |-> entries[i][2]]
       IN initialize(
            IF ~JsIn(key, init.state) THEN init
            ELSE IF v.ok THEN [init EXCEPT !.state[key] = v.value]
            ELSE [init EXCEPT !.logged = @ \cup {"initial"}],
            entries, i + 1)

\* createStateManager({schema, initialState: ov}) in the place of store s, with the
\* configuration s has: the defaults, then the overrides; no subscriber, selector
\* or middleware, not paused, no transaction, nothing to load.
CreateStore(s, ov) ==
  /\ \E init \in {initialize([state |-> [f \in Fields |-> DefaultValue(f)],
                               logged |-> {}], Entries(ov), 1)} :
       /\ state' = [state EXCEPT ![s] = init.state]
       /\ last' = [Quiet("create", s) EXCEPT !.entries = Entries(ov),
                                             !.logged = init.logged]
  /\ isPaused' = [isPaused EXCEPT ![s] = FALSE]
  /\ middlewares' = [middlewares EXCEPT ![s] = <<>>]
  /\ atomSubscriptions' = [atomSubscriptions EXCEPT ![s] = [f \in Fields |-> {}]]
  /\ selectorCache' = [selectorCache EXCEPT ![s] =
                         [sel \in Selectors |-> [reg |-> FALSE, deps |-> {}]]]
  /\ selectorSubscriptions' = [selectorSubscriptions EXCEPT ![s] =
                                 [sel \in Selectors |-> {}]]
  /\ timeline' = [timeline EXCEPT ![s] = <<>>]
  /\ tx' = [tx EXCEPT ![s] = NewTransaction]
  /\ captured' = [captured EXCEPT ![s] = NotCaptured]
  /\ hook' = [hook EXCEPT ![s] = NoTransaction]
  /\ disposed' = [disposed EXCEPT ![s] = FALSE]
  /\ loading' = [loading EXCEPT ![s] = Loaded]
  /\ stored' = [stored EXCEPT ![s] = [f \in Fields |-> Null]]
  /\ UNCHANGED <<config, net, ws>>

(* ----------------------------- local update ---------------------------- *)

\* A caller updates one atom (the setter useAtom hands out):
\* updateAtom(atomId, raw, optimistic).
UpdateAtom(s, atomId, raw, optimistic, setOk, sendOk) ==
  /\ \E R \in {updateAtom(s, atomId, raw, optimistic, Run(state[s], timeline[s], middlewares[s]),
                          [f \in Fields |-> setOk], [f \in Fields |-> sendOk])} :
       /\ Store(s, R)
       /\ last' = Obs("update", s, atomId, raw, optimistic, s, R)
  /\ UNCHANGED <<isPaused, atomSubscriptions, selectorCache,
                 selectorSubscriptions, config, tx, net, loading, hook, disposed, ws>>

(* --------------------------- reconciliation ---------------------------- *)

\* The events a transport can deliver to a store: well-formed change events of any
\* origin, its own identity included, for any atomId, of a sender whose field was at
\* its default before the change.
RemoteEvents(s) ==
  [atomId : Fields \cup {UnknownAtom}, prevValue : {DefaultValue("a")},
   newValue : Values, source : {s, Peer}, optimistic : BOOLEAN]

\* The callback without the comparison of ev.source with clientId.
onRemoteChange_noLoopback(s, ev, R, setOk, sendOk) ==
  applyChange(s, ev, R, setOk, sendOk)

\* The callback writing the remote value into the snapshot itself, past applyChange.
onRemoteChange_direct(s, ev, R, setOk, sendOk) ==
  IF ev.source = s \/ ev.atomId \notin DOMAIN R.state THEN R
  ELSE [R EXCEPT !.state = [R.state EXCEPT ![ev.atomId] = ev.newValue]]

\* close() of the built-in adapters clears the adapter's listeners; the transport a
\* namespaced store is given (createNamespacedState) has a close that does nothing,
\* which is what "promise" stands for here.
ClosesListeners(kind) == kind = "sync"

\* The transport still calls the callback store s gave to subscribeToChanges: the
\* store never calls the function subscribeToChanges returned, so only the
\* adapter's close ends it.
Listening(s) ==
  config[s].sync # "none" /\ ~(disposed[s] /\ ClosesListeners(config[s].sync))

\* The callback given to sync.subscribeToChanges, called with ev.
onRemoteChange(s, ev, R, setOk, sendOk) ==
  IF ev.source = s THEN R ELSE applyChange(s, ev, R, setOk, sendOk)

Receive(s, ev, setOk, sendOk) ==
  /\ Listening(s)
  /\ \E R \in {onRemoteChange(s, ev, Run(state[s], timeline[s], middlewares[s]),
                              [f \in Fields \cup ObjectPrototypeKeys |-> setOk],
                              [f \in Fields \cup ObjectPrototypeKeys |-> sendOk])} :
       /\ Store(s, R)
       /\ last' = Obs("remote", s, ev.atomId, ev.newValue, ev.optimistic,
                      ev.source, R)
  /\ UNCHANGED <<isPaused, atomSubscriptions, selectorCache,
                 selectorSubscriptions, config, tx, net, loading, hook, disposed, ws>>

\* The events of other peers a transport can deliver when nothing is assumed about
\* their atomId: a field, a name that is no key of any object, or a key every
\* plain object inherits.
ForeignEvents(s) ==
  [atomId : Fields \cup {UnknownAtom} \cup ObjectPrototypeKeys,
   prevValue : {DefaultValue("a")}, newValue : Values, source : {Peer},
   optimistic : {FALSE}]

(* ------------------------------ debug API ------------------------------ *)

togglePause(s) ==
  /\ isPaused' = [isPaused EXCEPT ![s] = ~@]
  /\ last' = Quiet("togglePause", s)
  /\ UNCHANGED <<state, middlewares, atomSubscriptions, selectorCache,
                 selectorSubscriptions, timeline, config, tx, net, loading, stored, captured, hook, disposed, ws>>

\* addMiddleware(mw)
addMiddleware(s, kind) ==
  /\ middlewares' = [middlewares EXCEPT ![s] = Append(@, kind)]
  /\ last' = Quiet("addMiddleware", s)
  /\ UNCHANGED <<state, isPaused, atomSubscriptions, selectorCache,
                 selectorSubscriptions, timeline, config, tx, net, loading, stored, captured, hook, disposed, ws>>

\* The function addMiddleware returned, for the middleware at position i.
removeMiddleware(s, i) ==
  /\ i \in 1 .. Len(middlewares[s])
  /\ middlewares' = [middlewares EXCEPT ![s] =
       SubSeq(@, 1, i - 1) \o SubSeq(@, i + 1, Len(@))]
  /\ last' = Quiet("removeMiddleware", s)
  /\ UNCHANGED <<state, isPaused, atomSubscriptions, selectorCache,
                 selectorSubscriptions, timeline, config, tx, net, loading, stored, captured, hook, disposed, ws>>

\* dispose(): both subscription maps are cleared and the sync adapter is closed; the
\* selector cache, the middlewares and the snapshot stay as they are.
dispose(s) ==
  /\ atomSubscriptions' = [atomSubscriptions EXCEPT ![s] = [f \in Fields |-> {}]]
  /\ selectorSubscriptions' = [selectorSubscriptions EXCEPT ![s] =
                                 [sel \in Selectors |-> {}]]
  /\ disposed' = [disposed EXCEPT ![s] = TRUE]
  /\ last' = Quiet("dispose", s)
  /\ UNCHANGED <<state, isPaused, middlewares, selectorCache, timeline, config, tx,
                 net, loading, stored, captured, hook, ws>>

(* ---------------------------- subscriptions ---------------------------- *)

subscribe(s, atomId, u) ==
  /\ u \notin atomSubscriptions[s][atomId]
  /\ atomSubscriptions' = [atomSubscriptions EXCEPT ![s][atomId] = @ \cup {u}]
  /\ last' = Quiet("subscribe", s)
  /\ UNCHANGED <<state, isPaused, middlewares, selectorCache,
                 selectorSubscriptions, timeline, config, tx, net, loading, stored, captured, hook, disposed, ws>>

\* The function subscribe returned.
unsubscribe(s, atomId, u) ==
  /\ u \in atomSubscriptions[s][atomId]
  /\ atomSubscriptions' = [atomSubscriptions EXCEPT ![s][atomId] = @ \ {u}]
  /\ last' = Quiet("unsubscribe", s)
  /\ UNCHANGED <<state, isPaused, middlewares, selectorCache,
                 selectorSubscriptions, timeline, config, tx, net, loading, stored, captured, hook, disposed, ws>>

\* createSelector(selector) without explicit deps: one trial run against a proxy of
\* the snapshot records the fields read.
createSelector(s, sel) ==
  [selectorCache EXCEPT ![s][sel] = [reg |-> TRUE, deps |-> SelectorReads(sel)]]

\* selectors.subscribe(selector, callback): a selector not yet created is created
\* first (createSelector infers its dependencies by a trial run of the function);
\* the callback is added and called once with the current value, computed by
\* selector(state): keep says that the selector function keeps the object it is
\* handed in this call.
subscribeToSelector(s, sel, u, keep) ==
  /\ u \notin selectorSubscriptions[s][sel]
  /\ captured' = IF keep
                   THEN [captured EXCEPT ![s] =
                           [held |-> TRUE, current |-> TRUE,
                            seen |-> state[s], now |-> state[s]]]
                   ELSE captured
  /\ selectorCache' = IF selectorCache[s][sel].reg THEN selectorCache
                      ELSE createSelector(s, sel)
  /\ selectorSubscriptions' = [selectorSubscriptions EXCEPT ![s][sel] = @ \cup {u}]
  /\ last' = [Quiet("subscribeToSelector", s) EXCEPT
                !.atomId = sel,
                !.trace = IF selectorCache[s][sel].reg THEN <<"compute">>
                          ELSE <<"infer", "compute">>,
                !.computed = <<sel>>,
                !.selNotified = <<[sel |-> sel, to |-> {u},
                                   value |-> SelectorFn(sel, state[s])]>>]
  /\ UNCHANGED <<state, isPaused, middlewares, atomSubscriptions, timeline,
                 config, tx, net, loading, stored, hook, disposed, ws>>

\* An unsubscribe that lets go of the selector with its last callback.
unsubscribeFromSelector_forgets(s, sel, u) ==
  /\ u \in selectorSubscriptions[s][sel]
  /\ selectorSubscriptions' = [selectorSubscriptions EXCEPT ![s][sel] = @ \ {u}]
  /\ selectorCache' = IF selectorSubscriptions[s][sel] = {u}
                        THEN [selectorCache EXCEPT ![s][sel] =
                                [reg |-> FALSE, deps |-> {}]]
                        ELSE selectorCache
  /\ last' = [Quiet("unsubscribeFromSelector", s) EXCEPT !.atomId = sel]
  /\ UNCHANGED <<state, isPaused, middlewares, atomSubscriptions,
                 timeline, config, tx, net, loading, stored, captured, hook, disposed, ws>>

\* The function selectors.subscribe returned.
unsubscribeFromSelector(s, sel, u) ==
  /\ u \in selectorSubscriptions[s][sel]
  /\ selectorSubscriptions' = [selectorSubscriptions EXCEPT ![s][sel] = @ \ {u}]
  /\ last' = [Quiet("unsubscribeFromSelector", s) EXCEPT !.atomId = sel]
  /\ UNCHANGED <<state, isPaused, middlewares, atomSubscriptions, selectorCache,
                 timeline, config, tx, net, loading, stored, captured, hook, disposed, ws>>

(* ----------------------------- transactions ---------------------------- *)

\* Map.has(key), Map.set(key, value) on a Map kept as a sequence of <<key, value>>:
\* set on a key the Map has replaces the value in place, on a new key appends.
MapHas(m, key) == \E i \in 1 .. Len(m) : m[i][1] = key

MapSet(m, key, value) ==
  IF MapHas(m, key)
    THEN [i \in 1 .. Len(m) |-> IF m[i][1] = key THEN <<key, value>> ELSE m[i]]
    ELSE Append(m, <<key, value>>)

\* transaction.update(atomId, raw) on the transaction t of store s: remembers the
\* field's current value on the first touch, then validates and records the value;
\* a ZodError of validate is thrown to the caller.
txUpdate(s, t, atomId, raw, R) ==
  LET v == Validate(atomId, raw)
      t1 == [t EXCEPT !.previousValues =
               IF MapHas(@, atomId) THEN @ ELSE Append(@, <<atomId, R.state[atomId]>>)]
  IN IF v.ok
       THEN [tx |-> [t1 EXCEPT !.changes = MapSet(@, atomId, v.value),
                               !.rewritten = IF MapHas(t.changes, atomId)
                                               THEN @ \cup {atomId} ELSE @],
             R |-> R]
       ELSE [tx |-> t1, R |-> [R EXCEPT !.error = "ZodError"]]

\* The loop of commit from entry i on: updateAtom for each pending entry, in the
\* Map's order; an exception leaves the loop.
RECURSIVE commitFrom(_, _, _, _, _, _)
commitFrom(s, entries, i, R, setOk, sendOk) ==
  IF i > Len(entries) \/ R.error # "none" THEN R
  ELSE commitFrom(s, entries, i + 1,
         updateAtom(s, entries[i][1], entries[i][2], FALSE, R, setOk, sendOk),
         setOk, sendOk)

\* transaction.commit(): both maps are cleared once every entry is applied; an
\* exception thrown by an entry leaves them as they are.
txCommit(s, t, R, setOk, sendOk) ==
  LET R1 == commitFrom(s, t.changes, 1, R, setOk, sendOk) IN
  IF R1.error # "none"
    THEN [tx |-> t, R |-> R1]
    ELSE [tx |-> NewTransaction, R |-> R1]

\* A rollback that writes the remembered values back: updateAtom for every entry of
\* previousValues, then both maps cleared.
txRollback_restores(s, t, R) ==
  [tx |-> NewTransaction,
   R |-> commitFrom(s, t.previousValues, 1, R,
                    [f \in Fields |-> TRUE], [f \in Fields |-> TRUE])]

\* transaction.rollback(): clears both maps.
txRollback(s, t, R) ==
  [tx |-> NewTransaction, R |-> R]

\* stateManager.transaction()
Begin(s) ==
  /\ tx' = [tx EXCEPT ![s] = NewTransaction]
  /\ last' = Quiet("begin", s)
  /\ UNCHANGED <<state, isPaused, middlewares, atomSubscriptions, selectorCache,
                 selectorSubscriptions, timeline, config, net, loading, stored, captured, hook, disposed, ws>>

TxUpdate(s, atomId, raw) ==
  /\ \E r \in {txUpdate(s, tx[s], atomId, raw, Run(state[s], timeline[s], middlewares[s]))} :
       /\ Store(s, r.R)
       /\ tx' = [tx EXCEPT ![s] = r.tx]
       /\ last' = Obs("txUpdate", s, atomId, raw, FALSE, s, r.R)
  /\ UNCHANGED <<isPaused, atomSubscriptions, selectorCache,
                 selectorSubscriptions, config, net, loading, hook, disposed, ws>>

TxCommit(s, setOk, sendOk) ==
  /\ \E r \in {txCommit(s, tx[s], Run(state[s], timeline[s], middlewares[s]), setOk, sendOk)} :
       /\ Store(s, r.R)
       /\ tx' = [tx EXCEPT ![s] = r.tx]
       /\ last' = [Obs("commit", s, "-", 0, FALSE, s, r.R)
                     EXCEPT !.entries = tx[s].changes,
                            !.rewritten = tx[s].rewritten, !.txPrev = last.op]
  /\ UNCHANGED <<isPaused, atomSubscriptions, selectorCache,
                 selectorSubscriptions, config, net, loading, hook, disposed, ws>>

TxRollback(s) ==
  /\ \E r \in {txRollback(s, tx[s], Run(state[s], timeline[s], middlewares[s]))} :
       /\ Store(s, r.R)
       /\ tx' = [tx EXCEPT ![s] = r.tx]
       /\ last' = [Obs("rollback", s, "-", 0, FALSE, s, r.R)
                     EXCEPT !.entries = tx[s].changes, !.txPrev = last.op]
  /\ UNCHANGED <<isPaused, atomSubscriptions, selectorCache,
                 selectorSubscriptions, config, net, loading, hook, disposed, ws>>

(* --------------------------- useTransaction ---------------------------- *)

\* The update closure of one render, called for the entries from the i-th on: with
\* the transaction of that render, transaction.update for each; a ZodError leaves
\* the handler.
RECURSIVE hookUpdates(_, _, _, _, _)
hookUpdates(s, t, entries, i, R) ==
  IF i > Len(entries) \/ R.error # "none" THEN [tx |-> t, R |-> R]
  ELSE LET r == txUpdate(s, t, entries[i][1], entries[i][2], R)
       IN hookUpdates(s, r.tx, entries, i + 1, r.R)

\* An event handler of a component that uses the hook, as the README writes it:
\* begin(); update(...) for every entry; commit(). The three closures are those of
\* the render the handler belongs to, so they see the transaction that render saw:
\* begin makes a new transaction object and asks React to put it in the state;
\* update and commit warn and return when the render's transaction is null, and
\* otherwise work on the render's transaction, commit then asking for null and
\* false. The state the next render sees is what was asked for last; the object the
\* state then holds is the store's tx.
handleSubmit(s, entries, setOk, sendOk) ==
  /\ LET R0 == Run(state[s], timeline[s], middlewares[s])
         u == IF hook[s].transaction
                THEN hookUpdates(s, tx[s], entries, 1, R0)
                ELSE [tx |-> tx[s], R |-> [R0 EXCEPT !.logged = {"warn"}]]
         c == IF hook[s].transaction /\ u.R.error = "none"
                THEN txCommit(s, u.tx, u.R, setOk, sendOk)
                ELSE u
         done == hook[s].transaction /\ c.R.error = "none"
     IN /\ Store(s, c.R)
        /\ hook' = [hook EXCEPT ![s] =
                      IF done THEN NoTransaction
                              ELSE [transaction |-> TRUE, isActive |-> TRUE]]
        /\ tx' = [tx EXCEPT ![s] = NewTransaction]
        /\ last' = [Obs("submit", s, "-", 0, FALSE, s, c.R)
                      EXCEPT !.entries = entries]
  /\ UNCHANGED <<isPaused, atomSubscriptions, selectorCache,
                 selectorSubscriptions, config, net, loading, disposed, ws>>

(* ------------------------------- reset --------------------------------- *)

\* Object.entries(atoms) with each atom's default.
DefaultEntries ==
  [i \in 1 .. Len(FieldOrder) |-> <<FieldOrder[i], DefaultValue(FieldOrder[i])>>]

\* resetState(): updateAtom(key, atom.default) for every atom, in schema order; an
\* exception leaves the loop.
resetState(s, setOk, sendOk) ==
  /\ \E R \in {commitFrom(s, DefaultEntries, 1, Run(state[s], timeline[s], middlewares[s]),
                          setOk, sendOk)} :
       /\ Store(s, R)
       /\ last' = Obs("reset", s, "-", 0, FALSE, s, R)
  /\ UNCHANGED <<isPaused, atomSubscriptions, selectorCache,
                 selectorSubscriptions, config, tx, net, loading, hook, disposed, ws>>

(* ------------------------------ time travel ---------------------------- *)

\* prevValue: undefined
Undefined == "undefined"

\* travelTo's loop over the callbacks of field atomId from the i-th on, each called
\* with a new event whose newValue is read from the snapshot at the time of the call.
RECURSIVE travelNotifyFrom(_, _, _, _, _, _)
travelNotifyFrom(s, atomId, i, R, setOk, sendOk) ==
  IF i > Len(CallbackOrder) \/ R.error # "none" THEN R
  ELSE LET u == CallbackOrder[i] IN
       IF u \notin atomSubscriptions[s][atomId]
         THEN travelNotifyFrom(s, atomId, i + 1, R, setOk, sendOk)
         ELSE LET ev == [atomId |-> atomId, prevValue |-> Undefined,
                         newValue |-> R.state[atomId], source |-> s,
                         optimistic |-> FALSE]
                  R1 == [R EXCEPT !.notified = Append(@, [to |-> u, ev |-> ev]),
                                  !.trace = Append(@, "subscriber")]
                  R2 == IF u \in Writers /\ ev.newValue # 0
                          THEN updateAtom(s, atomId, 0, FALSE, R1, setOk, sendOk)
                          ELSE R1
              IN travelNotifyFrom(s, atomId, i + 1, R2, setOk, sendOk)

\* for (const [atomId, subscribers] of atomSubscriptions.entries()): the fields in
\* schema order, from the k-th on.
RECURSIVE travelNotify(_, _, _, _, _)
travelNotify(s, k, R, setOk, sendOk) ==
  IF k > Len(FieldOrder) \/ R.error # "none" THEN R
  ELSE travelNotify(s, k + 1,
                    travelNotifyFrom(s, FieldOrder[k], 1, R, setOk, sendOk),
                    setOk, sendOk)

\* debug.travelTo(entryId), for the id of the i-th entry or, with i past the end,
\* an id no entry has: state = { ...entry.snapshot }, every callback of every field
\* is called, then updateSelectors('*'), which finds no selector with a dependency
\* of that name.
travelTo(s, i, R, setOk, sendOk) ==
  IF i \notin 1 .. Len(R.timeline) THEN R
  ELSE updateSelectors(s, "*",
         travelNotify(s, 1,
           [R EXCEPT !.state = R.timeline[i].snapshot,
                     !.applied = Append(@, <<"*", i>>)],
           setOk, sendOk))

TravelTo(s, i, setOk, sendOk) ==
  /\ \E R \in {travelTo(s, i, Run(state[s], timeline[s], middlewares[s]),
                        [f \in Fields |-> setOk], [f \in Fields |-> sendOk])} :
       /\ Store(s, R)
       /\ last' = Obs("travelTo", s, "-", i, FALSE, s, R)
  /\ UNCHANGED <<isPaused, atomSubscriptions, selectorCache,
                 selectorSubscriptions, config, tx, net, loading, hook, disposed, ws>>

\* debug.clearTimeline()
clearTimeline(s) ==
  /\ timeline' = [timeline EXCEPT ![s] = <<>>]
  /\ last' = Quiet("clearTimeline", s)
  /\ UNCHANGED <<state, isPaused, middlewares, atomSubscriptions, selectorCache,
                 selectorSubscriptions, config, tx, net, loading, stored,
                 captured, hook, disposed, ws>>

(* ------------------------- load from storage --------------------------- *)

\* What storage.get answers for a key: what the storage holds under it.
storageGet(s, key) == stored[s][key]

\* createStateManager calls loadFromStorage, which runs up to its first await: the
\* keys of the snapshot are taken once and the first get is made.
StartLoad(st) ==
  [keys |-> FieldOrder, got |-> st[Head(FieldOrder)]]

\* loadFromStorage, from one await to the next: the pending get has answered for
\* the first key left. A value that is not null is validated and assigned to the
\* field of the current snapshot object (state[atomKey] = ...: no new object, no
\* timeline entry, no notification, no selector run), so that a reader holding
\* this object sees the field change; a value the schema rejects is logged. The
\* loop then makes the get of the next key.
LoadStep(s) ==
  /\ loading[s].keys # <<>>
  /\ LET key == Head(loading[s].keys)
         got == loading[s].got
         rest == Tail(loading[s].keys)
         v == IF got = Null THEN [ok |-> FALSE, value |-> 0]
                            ELSE Validate(key, got[1])
         R == Run(state[s], timeline[s], middlewares[s])
     IN /\ state' = IF v.ok THEN [state EXCEPT ![s][key] = v.value] ELSE state
        /\ captured' = IF v.ok /\ captured[s].held /\ captured[s].current
                         THEN [captured EXCEPT ![s].now[key] = v.value]
                         ELSE captured
        /\ loading' = [loading EXCEPT ![s] =
                         IF rest = <<>> THEN Loaded
                         ELSE [keys |-> rest, got |-> storageGet(s, Head(rest))]]
        /\ last' = Obs("load", s, key, v.value, FALSE, "-",
                       IF got # Null /\ ~v.ok
                         THEN [R EXCEPT !.logged = {"load"}] ELSE R)
  /\ UNCHANGED <<isPaused, middlewares, atomSubscriptions, selectorCache,
                 selectorSubscriptions, timeline, config, tx, net, stored, hook, disposed, ws>>

(* ------------------------------ transport ------------------------------ *)

\* The stores on the transport: those created with a syncAdapter.
Connected == {s \in DOMAIN config : config[s].sync # "none"}

\* The messages in flight after store s has passed the events of sent to
\* sendChange: the transport carries a copy of each to every other store.
RECURSIVE Broadcast(_, _, _)
Broadcast(b, s, sent) ==
  IF sent = <<>> THEN b
  ELSE Broadcast(b (+) SetToBag({[to |-> t, ev |-> Head(sent)] : t \in Connected \ {s}}),
                 s, Tail(sent))

\* A caller's updateAtom on a store whose transport delivers: what the store passed
\* to sendChange is in flight to the other stores.
UpdateAndSend(s, atomId, raw, optimistic) ==
  /\ \E R \in {updateAtom(s, atomId, raw, optimistic,
                          Run(state[s], timeline[s], middlewares[s]),
                          [f \in Fields |-> TRUE], [f \in Fields |-> TRUE])} :
       /\ Store(s, R)
       /\ net' = Broadcast(net, s, R.sent)
       /\ last' = Obs("update", s, atomId, raw, optimistic, s, R)
  /\ UNCHANGED <<isPaused, atomSubscriptions, selectorCache,
                 selectorSubscriptions, config, tx, loading, hook, disposed, ws>>

\* The transport delivers the message m: the callback the store gave to
\* subscribeToChanges is called with the event, and what the store passes to
\* sendChange meanwhile is in flight in turn.
Deliver(m) ==
  /\ BagIn(m, net)
  /\ Listening(m.to)
  /\ \E R \in {onRemoteChange(m.to, m.ev,
                              Run(state[m.to], timeline[m.to], middlewares[m.to]),
                              [f \in Fields \cup ObjectPrototypeKeys |-> TRUE],
                              [f \in Fields \cup ObjectPrototypeKeys |-> TRUE])} :
       /\ Store(m.to, R)
       /\ net' = Broadcast(net (-) SetToBag({m}), m.to, R.sent)
       /\ last' = Obs("remote", m.to, m.ev.atomId, m.ev.newValue, m.ev.optimistic,
                      m.ev.source, R)
  /\ UNCHANGED <<isPaused, atomSubscriptions, selectorCache,
                 selectorSubscriptions, config, tx, loading, hook, disposed, ws>>

(* ------------------------- websocket adapter steps --------------------- *)

\* The store's variables, which the adapter's own steps leave alone.
storeVars ==
  <<state, isPaused, middlewares, atomSubscriptions, selectorCache,
    selectorSubscriptions, timeline, config, tx, net, loading, stored, captured,
    hook, disposed>>

\* initialize()
WsInitialize(ok) ==
  /\ ws' = connect(ws, ok)
  /\ last' = Quiet("ws.initialize", "A")
  /\ UNCHANGED storeVars

\* The i-th WebSocket has connected: socket.onopen sets isConnected (no message is
\* pending: sendChange is not called here).
WsOpen(i) ==
  /\ ws.socks[i] = "connecting"
  /\ ws' = [ws EXCEPT !.socks[i] = "open", !.isConnected = TRUE]
  /\ last' = Quiet("ws.onopen", "A")
  /\ UNCHANGED storeVars

\* The connection of the i-th WebSocket is lost (the server or the network ends
\* it): its close event runs socket.onclose.
WsLost(i) ==
  /\ ws.socks[i] \in {"connecting", "open"}
  /\ ws' = onclose([ws EXCEPT !.socks[i] = "closed"])
  /\ last' = Quiet("ws.lost", "A")
  /\ UNCHANGED storeVars

\* The close event of the i-th WebSocket, on which close() was called: it runs the
\* same socket.onclose.
WsClosed(i) ==
  /\ ws.socks[i] = "closing"
  /\ ws' = onclose([ws EXCEPT !.socks[i] = "closed"])
  /\ last' = Quiet("ws.onclose", "A")
  /\ UNCHANGED storeVars

\* socket.onerror of the i-th WebSocket: if (socket) socket.close().
WsError(i) ==
  /\ ws.socks[i] \in {"connecting", "open"}
  /\ ws' = IF ws.socket # 0 THEN socketClose(ws, ws.socket) ELSE ws
  /\ last' = Quiet("ws.onerror", "A")
  /\ UNCHANGED storeVars

\* The reconnect timeout fires: reconnectTimer = null; connect().
WsTimer(ok) ==
  /\ ws.timers > 0
  /\ ws' = connect([ws EXCEPT !.timers = @ - 1, !.reconnectTimer = FALSE], ok)
  /\ last' = Quiet("ws.timer", "A")
  /\ UNCHANGED storeVars

\* close(): the socket is closed and forgotten, the timer cleared.
WsClose ==
  /\ ws' = LET w == IF ws.socket # 0 THEN socketClose(ws, ws.socket) ELSE ws
            IN [w EXCEPT !.socket = 0, !.reconnectTimer = FALSE,
                         !.timers = IF ws.reconnectTimer THEN @ - 1 ELSE @,
                         !.closed = TRUE,
                         !.atClose = IF ws.closed THEN @ ELSE Len(ws.socks)]
  /\ last' = Quiet("ws.close", "A")
  /\ UNCHANGED storeVars

(* ---------------------------- specifications --------------------------- *)

\* A caller's update of store s.
LocalChange(s) ==
  \E f \in Fields, raw \in RawInputs, o \in BOOLEAN :
    \E ok1 \in Outcomes(config[s].storage), ok2 \in Outcomes(config[s].sync) :
      UpdateAtom(s, f, raw, o, ok1, ok2)

\* The transport's delivery of an event to store s.
RemoteChange(s) ==
  \E ev \in RemoteEvents(s) :
    \E ok1 \in Outcomes(config[s].storage), ok2 \in Outcomes(config[s].sync) :
      Receive(s, ev, ok1, ok2)

AtomSubscriptions(s) ==
  \/ \E f \in Fields, u \in Subscribers : subscribe(s, f, u)
  \/ \E f \in Fields, u \in Subscribers : unsubscribe(s, f, u)

SelectorSubscriptions(s) ==
  \/ \E sel \in Selectors, u \in Subscribers : subscribeToSelector(s, sel, u, FALSE)
  \/ \E sel \in Selectors, u \in Subscribers : unsubscribeFromSelector(s, sel, u)

\* One middleware at a time is registered on store s.
Middlewares(s) ==
  \/ \E k \in MwKinds : middlewares[s] = <<>> /\ addMiddleware(s, k)
  \/ removeMiddleware(s, 1)

\* Spec: one store, A, under every configuration of its two adapters, updated by
\* its callers and by the transport; no middleware and no selector is registered.
Configs == [storage : AdapterKinds, sync : AdapterKinds, timeTravel : {FALSE}]

Init == InitStore({"A"}, Configs)

Next ==
  \/ LocalChange("A")
  \/ RemoteChange("A")
  \/ togglePause("A")
  \/ AtomSubscriptions("A")

Spec == Init /\ [][Next]_vars

\* SpecRemote: store A with a transport that returns promises and any storage
\* adapter, driven by the transport alone, with one middleware at a time, pause,
\* atom and selector subscribers.
ConfigsRemote == [storage : AdapterKinds, sync : {"promise"}, timeTravel : {FALSE}]

InitRemote == InitStore({"A"}, ConfigsRemote)

NextRemote ==
  \/ RemoteChange("A")
  \/ togglePause("A")
  \/ Middlewares("A")
  \/ AtomSubscriptions("A")
  \/ SelectorSubscriptions("A")

SpecRemote == InitRemote /\ [][NextRemote]_vars

\* SpecTx: store A without a storage adapter, with a built-in one or with one that
\* may throw, and with atom subscribers, updated through one transaction object at
\* a time and, while that object has not been touched, directly.
ConfigsTx ==
  [storage : {"none", "sync", Throwing}, sync : {"none"}, timeTravel : {FALSE}]

InitTx == InitStore({"A"}, ConfigsTx)

NextTx ==
  \/ \E f \in Fields, raw \in RawInputs, ok \in Outcomes(config["A"].storage) :
       tx["A"].previousValues = <<>> /\ UpdateAtom("A", f, raw, FALSE, ok, TRUE)
  \/ Begin("A")
  \/ \E f \in Fields, raw \in RawInputs : TxUpdate("A", f, raw)
  \/ \E ok1 \in [Fields -> Outcomes(config["A"].storage)],
        ok2 \in [Fields -> Outcomes(config["A"].sync)] : TxCommit("A", ok1, ok2)
  \/ TxRollback("A")
  \/ AtomSubscriptions("A")

SpecTx == InitTx /\ [][NextTx]_vars

\* SpecTxOnce: the same store, updated through a transaction object that is given
\* each field at most once.
NextTxOnce ==
  \/ \E f \in Fields, raw \in RawInputs, ok \in Outcomes(config["A"].storage) :
       tx["A"].previousValues = <<>> /\ UpdateAtom("A", f, raw, FALSE, ok, TRUE)
  \/ Begin("A")
  \/ \E f \in Fields, raw \in RawInputs :
       /\ \A i \in 1 .. Len(tx["A"].changes) : tx["A"].changes[i][1] # f
       /\ TxUpdate("A", f, raw)
  \/ \E ok1 \in [Fields -> Outcomes(config["A"].storage)],
        ok2 \in [Fields -> Outcomes(config["A"].sync)] : TxCommit("A", ok1, ok2)
  \/ TxRollback("A")
  \/ AtomSubscriptions("A")

SpecTxOnce == InitTx /\ [][NextTxOnce]_vars

\* SpecForeign: store A with a transport and with or without storage, promises
\* both, given events of other peers with any atomId, updated by its callers and
\* reset.
ConfigsForeign == [storage : {"none", "promise"}, sync : {"promise"}, timeTravel : {FALSE}]

InitForeign == InitStore({"A"}, ConfigsForeign)

ForeignChange(s) ==
  \E ev \in ForeignEvents(s) :
    \E ok1 \in Outcomes(config[s].storage), ok2 \in Outcomes(config[s].sync) :
      Receive(s, ev, ok1, ok2)

Reset(s) ==
  \E ok1 \in Outcomes(config[s].storage), ok2 \in Outcomes(config[s].sync) :
    resetState(s, [f \in Fields |-> ok1], [f \in Fields |-> ok2])

NextForeign ==
  \/ ForeignChange("A")
  \/ \E f \in Fields, v \in Values :
       \E ok1 \in Outcomes(config["A"].storage), ok2 \in Outcomes(config["A"].sync) :
         UpdateAtom("A", f, v, FALSE, ok1, ok2)
  \/ Reset("A")
  \/ AtomSubscriptions("A")

SpecForeign == InitForeign /\ [][NextForeign]_vars

\* SpecNested: store A without adapters, updated by its callers and by a subscriber
\* that writes from inside its callback; the writing callback subscribes to a field
\* while no other callback is subscribed to it, so that it is called first.
ConfigsNested == {NoAdapters}

InitNested == InitStore({"A"}, ConfigsNested)

WriterSubscriptions(s) ==
  \/ \E f \in Fields, w \in Writers :
       atomSubscriptions[s][f] \cap Subscribers = {} /\ subscribe(s, f, w)
  \/ \E f \in Fields, w \in Writers : unsubscribe(s, f, w)

NextNested ==
  \/ \E f \in Fields, v \in Values : UpdateAtom("A", f, v, FALSE, TRUE, TRUE)
  \/ AtomSubscriptions("A")
  \/ WriterSubscriptions("A")

SpecNested == InitNested /\ [][NextNested]_vars

\* SpecLoad: store A created over a storage that already holds values, updated by
\* its callers while loadFromStorage is still reading, with a selector whose
\* function may keep the snapshot object it is handed.
ConfigsLoad == [storage : {"promise"}, sync : {"none"}, timeTravel : {FALSE}]

StoredValues == {Null} \cup {Some(v) : v \in RawInputs}

InitLoad ==
  /\ InitCore({"A"}, ConfigsLoad)
  /\ stored \in [Stores -> [Fields -> StoredValues]]
  /\ \A s \in Stores \ {"A"} : \A f \in Fields : stored[s][f] = Null
  /\ loading = [s \in Stores |-> IF s = "A" THEN StartLoad(stored[s]) ELSE Loaded]

KeepingSelector(s) ==
  \/ \E sel \in Selectors, u \in Subscribers, keep \in BOOLEAN :
       subscribeToSelector(s, sel, u, keep)
  \/ \E sel \in Selectors, u \in Subscribers : unsubscribeFromSelector(s, sel, u)

NextLoad ==
  \/ LoadStep("A")
  \/ \E f \in Fields, v \in Values, ok \in BOOLEAN :
       UpdateAtom("A", f, v, FALSE, ok, TRUE)
  \/ KeepingSelector("A")

SpecLoad == InitLoad /\ [][NextLoad]_vars

\* SpecPause: store A with a storage and a transport whose promises resolve, paused
\* and un-paused, given valid values by its callers, by its peer and through one
\* transaction object at a time that gives a field one value, with atom
\* subscribers.
ConfigsPause == [storage : {"promise"}, sync : {"promise"}, timeTravel : {FALSE}]

InitPause == InitStore({"A"}, ConfigsPause)

AllOk == [f \in Fields \cup ObjectPrototypeKeys |-> TRUE]

\* The peer's confirmed changes of the store's fields.
PeerEvents ==
  [atomId : Fields, prevValue : {DefaultValue("a")}, newValue : Values,
   source : {Peer}, optimistic : {FALSE}]

\* SpecLoopback: the store of SpecRemote given its own events back by the
\* transport, with any atomId, flag and adapter outcome, between the confirmed
\* changes of a peer.
LoopbackEvents(s) == {ev \in RemoteEvents(s) : ev.source = s}

NextLoopback ==
  \/ \E ev \in LoopbackEvents("A") :
       \E ok1 \in Outcomes(config["A"].storage), ok2 \in Outcomes(config["A"].sync) :
         Receive("A", ev, ok1, ok2)
  \/ \E ev \in PeerEvents : Receive("A", ev, TRUE, TRUE)
  \/ togglePause("A")
  \/ Middlewares("A")
  \/ AtomSubscriptions("A")
  \/ SelectorSubscriptions("A")

SpecLoopback == InitRemote /\ [][NextLoopback]_vars

\* SpecSchema: the store of SpecRemote given the events of another store with the
\* same schema, optimistic or not, with any adapter outcome.
SchemaEvents(s) == {ev \in RemoteEvents(s) : ev.source # s /\ ev.atomId \in Fields}

NextSchema ==
  \/ \E ev \in SchemaEvents("A") :
       \E ok1 \in Outcomes(config["A"].storage), ok2 \in Outcomes(config["A"].sync) :
         Receive("A", ev, ok1, ok2)
  \/ togglePause("A")
  \/ Middlewares("A")
  \/ AtomSubscriptions("A")
  \/ SelectorSubscriptions("A")

SpecSchema == InitRemote /\ [][NextSchema]_vars

Transactions(s) ==
  \/ \E f \in Fields, v \in Values :
       (\A i \in 1 .. Len(tx[s].changes) : tx[s].changes[i][1] # f) /\ TxUpdate(s, f, v)
  \/ TxCommit(s, AllOk, AllOk)
  \/ TxRollback(s)

NextPause ==
  \/ \E f \in Fields, v \in Values : UpdateAtom("A", f, v, FALSE, TRUE, TRUE)
  \/ \E ev \in PeerEvents : Receive("A", ev, TRUE, TRUE)
  \/ Transactions("A")
  \/ togglePause("A")
  \/ AtomSubscriptions("A")

SpecPause == InitPause /\ [][NextPause]_vars

\* SpecMw: store A without adapters, with atom subscribers and with middlewares
\* that pass, rewrite, veto or remove themselves, each registered at most once at a
\* time, in any order.
ConfigsMw == {NoAdapters}

InitMw == InitStore({"A"}, ConfigsMw)

MwNames == MwKinds \cup SelfRemoving

Registered(s) == {middlewares[s][i] : i \in 1 .. Len(middlewares[s])}

MiddlewareList(s) ==
  \/ \E k \in MwNames \ Registered(s) : addMiddleware(s, k)
  \/ \E i \in 1 .. Len(middlewares[s]) : removeMiddleware(s, i)

NextMw ==
  \/ \E f \in Fields, v \in Values : UpdateAtom("A", f, v, FALSE, TRUE, TRUE)
  \/ MiddlewareList("A")
  \/ AtomSubscriptions("A")

SpecMw == InitMw /\ [][NextMw]_vars

\* SpecTimeline: store A with debug.timeTravel on, without storage or with a storage
\* of any kind, with atom subscribers (one of which may write from its callback)
\* and selector subscribers, updated by its callers, its timeline travelled and
\* cleared. No caller's update is made to a timeline of MaxTimeline entries.
MaxTimeline == 2

ConfigsTimeline == [storage : AdapterKinds, sync : {"none"}, timeTravel : {TRUE}]

InitTimeline == InitStore({"A"}, ConfigsTimeline)

TimeTravel(s) ==
  \/ \E i \in 1 .. Len(timeline[s]) + 1, ok \in Outcomes(config[s].storage) :
       Len(timeline[s]) <= MaxTimeline /\ TravelTo(s, i, ok, TRUE)
  \/ clearTimeline(s)

NextTimeline ==
  \/ \E f \in Fields, v \in Values, ok \in Outcomes(config["A"].storage) :
       Len(timeline["A"]) < MaxTimeline /\ UpdateAtom("A", f, v, FALSE, ok, TRUE)
  \/ TimeTravel("A")
  \/ AtomSubscriptions("A")
  \/ WriterSubscriptions("A")
  \/ SelectorSubscriptions("A")

SpecTimeline == InitTimeline /\ [][NextTimeline]_vars

\* SpecReset: store A without storage or with a storage of any kind, with atom
\* subscribers, updated by its callers and reset.
ConfigsReset == [storage : AdapterKinds, sync : {"none"}, timeTravel : {FALSE}]

InitReset == InitStore({"A"}, ConfigsReset)

NextReset ==
  \/ \E f \in Fields, v \in Values, ok \in Outcomes(config["A"].storage) :
       UpdateAtom("A", f, v, FALSE, ok, TRUE)
  \/ Reset("A")
  \/ AtomSubscriptions("A")

SpecReset == InitReset /\ [][NextReset]_vars

\* SpecCreate: store A without adapters, created with any initialState and created
\* again, with atom subscribers, updated by its callers.
ConfigsCreate == {NoAdapters}

InitCreate == InitStore({"A"}, ConfigsCreate)

NextCreate ==
  \/ \E ov \in Overrides : CreateStore("A", ov)
  \/ \E f \in Fields, v \in Values : UpdateAtom("A", f, v, FALSE, TRUE, TRUE)
  \/ AtomSubscriptions("A")

SpecCreate == InitCreate /\ [][NextCreate]_vars

\* SpecSelector: store A without adapters, with a selector whose callback
\* subscribes and unsubscribes, updated by its callers.
ConfigsSelector == {NoAdapters}

InitSelector == InitStore({"A"}, ConfigsSelector)

NextSelector ==
  \/ \E f \in Fields, v \in Values : UpdateAtom("A", f, v, FALSE, TRUE, TRUE)
  \/ SelectorSubscriptions("A")
  \/ AtomSubscriptions("A")

SpecSelector == InitSelector /\ [][NextSelector]_vars

\* SpecHook: store A without adapters, with atom subscribers, updated by its
\* callers and by a component whose event handler uses useTransaction for one or
\* two updates.
ConfigsHook == {NoAdapters}

InitHook == InitStore({"A"}, ConfigsHook)

\* The update calls of a handler: one, or two of different fields.
HandlerEntries ==
  {<<e>> : e \in Fields \X Values}
    \cup {<<e1, e2>> : e1 \in {"a"} \X Values, e2 \in {"b"} \X Values}

NextHook ==
  \/ \E entries \in HandlerEntries : handleSubmit("A", entries, AllOk, AllOk)
  \/ \E f \in Fields, v \in Values : UpdateAtom("A", f, v, FALSE, TRUE, TRUE)
  \/ AtomSubscriptions("A")

SpecHook == InitHook /\ [][NextHook]_vars

\* SpecRewrite: store A with a storage and a transport whose promises resolve, with
\* atom subscribers and with middlewares that hand on a modified event (another
\* value, another field, another optimistic flag), each registered at most once at
\* a time, in any order, updated by its callers.
ConfigsRewrite == [storage : {"promise"}, sync : {"promise"}, timeTravel : {FALSE}]

InitRewrite == InitStore({"A"}, ConfigsRewrite)

RewritingList(s) ==
  \/ \E k \in (Rewriting \cup {"set0"}) \ Registered(s) : addMiddleware(s, k)
  \/ \E i \in 1 .. Len(middlewares[s]) : removeMiddleware(s, i)

NextRewrite ==
  \/ \E f \in Fields, v \in Values, o \in BOOLEAN :
       UpdateAtom("A", f, v, o, TRUE, TRUE)
  \/ RewritingList("A")
  \/ AtomSubscriptions("A")

SpecRewrite == InitRewrite /\ [][NextRewrite]_vars

\* SpecPeers: store A with a transport whose promises resolve and no storage, with
\* atom subscribers, updated by its callers with any raw input and given the
\* events of a peer about whose newValue nothing is assumed.
ConfigsPeers == [storage : {"none"}, sync : {"promise"}, timeTravel : {FALSE}]

InitPeers == InitStore({"A"}, ConfigsPeers)

\* The events of a peer that runs any code: a field of the schema with any value.
ArbitraryEvents ==
  [atomId : Fields, prevValue : {DefaultValue("a")}, newValue : RawInputs,
   source : {Peer}, optimistic : BOOLEAN]

NextPeers ==
  \/ \E f \in Fields, raw \in RawInputs, o \in BOOLEAN :
       UpdateAtom("A", f, raw, o, TRUE, TRUE)
  \/ \E ev \in ArbitraryEvents : Receive("A", ev, TRUE, TRUE)
  \/ AtomSubscriptions("A")

SpecPeers == InitPeers /\ [][NextPeers]_vars

\* SpecConverge: stores A and B with the same schema on one transport (promises, or
\* a built-in adapter), each updated by its callers while the other's changes are
\* in flight. No more than MaxInFlight messages are in flight.
MaxInFlight == 2

ConfigsConverge == [storage : {"none"}, sync : {"promise", "sync"}, timeTravel : {FALSE}]

InitConverge == InitStore(Stores, ConfigsConverge)

\* The messages the transport has to deliver.
InFlight == BagToSet(net)

NextConverge ==
  \/ \E s \in Stores, f \in Fields, v \in Values :
       BagCardinality(net) < MaxInFlight /\ UpdateAndSend(s, f, v, FALSE)
  \/ \E m \in InFlight : Deliver(m)

SpecConverge == InitConverge /\ [][NextConverge]_vars

\* SpecStorm: three stores with the same schema on one transport (promises, or a
\* built-in adapter), one of which is updated once by a caller; the transport
\* delivers every message in flight, sooner or later. No more than MaxPending
\* messages are in flight.
MaxPending == 4

Nodes == {"A", "B", "C"}

ConfigsStorm == [storage : {"none"}, sync : {"promise", "sync"}, timeTravel : {FALSE}]

\* createStateManager for each of the three: every field at its default, no
\* subscriber, no selector, no middleware, not paused, nothing to load.
InitStorm ==
  /\ state = [s \in Nodes |-> [f \in Fields |-> DefaultValue(f)]]
  /\ isPaused = [s \in Nodes |-> FALSE]
  /\ middlewares = [s \in Nodes |-> <<>>]
  /\ atomSubscriptions = [s \in Nodes |-> [f \in Fields |-> {}]]
  /\ selectorCache = [s \in Nodes |-> [sel \in Selectors |-> [reg |-> FALSE, deps |-> {}]]]
  /\ selectorSubscriptions = [s \in Nodes |-> [sel \in Selectors |-> {}]]
  /\ timeline = [s \in Nodes |-> <<>>]
  /\ config \in [Nodes -> ConfigsStorm]
  /\ tx = [s \in Nodes |-> NewTransaction]
  /\ net = EmptyBag
  /\ captured = [s \in Nodes |-> NotCaptured]
  /\ hook = [s \in Nodes |-> NoTransaction]
  /\ disposed = [s \in Nodes |-> FALSE]
  /\ ws = NewAdapter
  /\ stored = [s \in Nodes |-> [f \in Fields |-> Null]]
  /\ loading = [s \in Nodes |-> Loaded]
  /\ last = [Quiet("init", "A") EXCEPT !.pre = [f \in Fields |-> DefaultValue(f)]]

\* The one update a caller makes.
SingleUpdate ==
  \E s \in Nodes, f \in Fields, v \in Values :
    last.op = "init" /\ UpdateAndSend(s, f, v, FALSE)

\* The transport delivers one of the messages in flight.
Delivery ==
  \E m \in InFlight : Deliver(m) /\ BagCardinality(net') <= MaxPending

NextStorm ==
  \/ SingleUpdate
  \/ Delivery

SpecStorm == InitStorm /\ [][NextStorm]_vars /\ WF_vars(Delivery)

\* SpecStartup: store A created over a storage that already holds values, with
\* atom subscribers, updated by its callers while loadFromStorage is still reading.
ConfigsStartup == [storage : {"promise"}, sync : {"none"}, timeTravel : {FALSE}]

InitStartup ==
  /\ InitCore({"A"}, ConfigsStartup)
  /\ stored \in [Stores -> [Fields -> StoredValues]]
  /\ \A s \in Stores \ {"A"} : \A f \in Fields : stored[s][f] = Null
  /\ loading = [s \in Stores |-> IF s = "A" THEN StartLoad(stored[s]) ELSE Loaded]

NextStartup ==
  \/ LoadStep("A")
  \/ \E f \in Fields, v \in Values, ok \in BOOLEAN :
       UpdateAtom("A", f, v, FALSE, ok, TRUE)
  \/ AtomSubscriptions("A")

SpecStartup == InitStartup /\ [][NextStartup]_vars

\* SpecDispose: store A without a transport, with a built-in one or with one whose
\* close leaves the listeners, with atom and selector subscribers that subscribe
\* before the store is disposed, updated by its callers and by its peer before and
\* after dispose().
ConfigsDispose == [storage : {"none"}, sync : AdapterKinds, timeTravel : {FALSE}]

InitDispose == InitStore({"A"}, ConfigsDispose)

NextDispose ==
  \/ \E f \in Fields, v \in Values : UpdateAtom("A", f, v, FALSE, TRUE, TRUE)
  \/ \E ev \in PeerEvents : Receive("A", ev, TRUE, TRUE)
  \/ ~disposed["A"] /\ AtomSubscriptions("A")
  \/ ~disposed["A"] /\ SelectorSubscriptions("A")
  \/ dispose("A")

SpecDispose == InitDispose /\ [][NextDispose]_vars

\* SpecWs: one websocketAdapter: initialized, its sockets opening, failing and
\* losing their connection, its timer firing, and closed; it is not initialized
\* again after close(). No more than MaxSockets WebSocket objects are made.
MaxSockets == 4

ConfigsWs == {NoAdapters}

InitWs == InitStore({"A"}, ConfigsWs)

NextWs ==
  \/ \E ok \in BOOLEAN :
       ~ws.closed /\ Len(ws.socks) < MaxSockets /\ WsInitialize(ok)
  \/ \E i \in 1 .. Len(ws.socks) : WsOpen(i)
  \/ \E i \in 1 .. Len(ws.socks) : WsLost(i)
  \/ \E i \in 1 .. Len(ws.socks) : WsClosed(i)
  \/ \E i \in 1 .. Len(ws.socks) : WsError(i)
  \/ \E ok \in BOOLEAN : Len(ws.socks) < MaxSockets /\ WsTimer(ok)
  \/ WsClose

SpecWs == InitWs /\ [][NextWs]_vars

(* ------------------------------- claims -------------------------------- *)

\* The store and field of the last operation.
S == last.store

F == last.atomId

\* The last operation left the store as it found it and reached no collaborator.
Untouched ==
  /\ state[S] = last.pre /\ last.applied = <<>>
  /\ last.notified = <<>> /\ last.computed = <<>> /\ last.selNotified = <<>>
  /\ last.persisted = <<>> /\ last.sent = <<>> /\ last.appended = 0

\* The atom subscribers of field f got exactly one event in the last operation, with
\* newValue v.
OneEvent(f, v) ==
  LET n == SelectSeq(last.notified, LAMBDA d : d.ev.atomId = f) IN
  /\ Len(n) = Cardinality(atomSubscriptions[S][f])
  /\ {n[i].to : i \in 1 .. Len(n)} = atomSubscriptions[S][f]
  /\ \A i \in 1 .. Len(n) : n[i].ev.newValue = v

\* The middlewares of the store hand an event on, and hand it on as they got it.
MwHandsOn(ev) == applyMiddlewares(middlewares[S], 1, ev).done

MwUnchanged(ev) ==
  MwHandsOn(ev) /\ applyMiddlewares(middlewares[S], 1, ev).change = ev

\* The event of the last operation, as it entered applyChange.
LastEvent ==
  [atomId |-> F, prevValue |-> IF F \in Fields THEN last.pre[F] ELSE 0,
   newValue |-> last.value, source |-> last.source, optimistic |-> last.optimistic]

\* C1: a local update of field F to a valid value v, on a store that is not paused
\* and whose middleware does not veto, leaves the snapshot's F equal to v and gives
\* every subscriber of F exactly one event with newValue v, whatever the adapters
\* (none of which threw).
C1_UpdateApplied ==
  (/\ last.op = "update" /\ last.value \in Values /\ ~isPaused[S]
   /\ MwHandsOn(LastEvent) /\ last.error # "AdapterError")
    => /\ state[S][F] = last.value
       /\ OneEvent(F, last.value)

C3_NoRebroadcast ==
  /\ last.op = "remote" => last.sent = <<>>
  /\ \A i \in 1 .. Len(last.sent) :
       last.sent[i].source = S /\ ~last.sent[i].optimistic

\* C4: an event delivered by the transport whose source is the receiving store's own
\* identity changes no snapshot, notifies no atom or selector subscriber, writes
\* nothing to storage, appends no timeline entry and sends nothing, at every delivery.
C4_LoopbackSuppressed ==
  (last.op = "remote" /\ last.source = S) => (Untouched /\ last.error = "none")

C4_Witness ==
  /\ last.op = "remote" /\ last.source = S
  /\ F = "a" /\ state[S][F] # last.value
  /\ ~isPaused[S] /\ middlewares[S] = <<>>
  /\ atomSubscriptions[S][F] # {} /\ selectorSubscriptions[S]["sel"] # {}
  /\ config[S].storage = "promise"

\* What the atom subscribers were given: the callbacks, the field and the values.
Deliveries(n) ==
  [i \in 1 .. Len(n) |->
     [to |-> n[i].to, atomId |-> n[i].ev.atomId, prevValue |-> n[i].ev.prevValue,
      newValue |-> n[i].ev.newValue, optimistic |-> n[i].ev.optimistic]]

\* The effects a local update of the last operation's field to its value would have
\* had on the store as the last operation found it.
AsLocal(setOk, sendOk) ==
  updateAtom(S, F, last.value, last.optimistic, Run(last.pre, <<>>, middlewares[S]),
             [f \in Fields |-> setOk], [f \in Fields |-> sendOk])

C6_SyncAdaptersComplete ==
  (/\ last.op = "update" /\ last.value \in Values /\ ~isPaused[S]
   /\ MwUnchanged(LastEvent)
   /\ config[S].storage \in {"none", "sync"} /\ config[S].sync \in {"none", "sync"}
   /\ last.error # "AdapterError")
    => /\ last.error = "none"
       /\ state[S][F] = last.value
       /\ OneEvent(F, last.value)
       /\ (config[S].sync = "sync" /\ ~last.optimistic) => Len(last.sent) = 1

\* C7: when a set or sendChange call fails, by rejecting or by throwing, the change is
\* still applied, the subscribers are still notified, nothing is raised to the caller
\* of the update and the call is not made again.
C7_AdapterFailureContained ==
  (/\ last.op = "update" /\ last.value \in Values /\ ~isPaused[S]
   /\ MwUnchanged(LastEvent)
   /\ \/ "persist" \in last.logged \/ "sync" \in last.logged
      \/ last.error = "AdapterError"
   /\ last.error # "TypeError")
    => /\ last.error = "none"
       /\ state[S][F] = last.value
       /\ OneEvent(F, last.value)
       /\ Len(last.persisted) <= 1 /\ Len(last.sent) <= 1

\* The fields of the pending entries, in the Map's order.
Keys(entries) == [i \in 1 .. Len(entries) |-> entries[i][1]]

\* C8: a commit of a transaction that touched two fields applies one change per
\* field in the order the fields were first touched: the subscribers see the first
\* field's event before the second's and both fields hold the committed values
\* (no adapter call threw).
C8_CommitInOrder ==
  (/\ last.op = "commit" /\ Len(last.entries) = 2 /\ ~isPaused[S]
   /\ middlewares[S] = <<>> /\ last.error # "AdapterError")
    => /\ \A i \in 1 .. 2 : state[S][last.entries[i][1]] = last.entries[i][2]
       /\ \A i \in 1 .. 2 : OneEvent(last.entries[i][1], last.entries[i][2])
       /\ LET seen == [i \in 1 .. Len(last.notified) |-> last.notified[i].ev.atomId]
          IN seen = SelectSeq(Keys(last.entries),
                              LAMBDA f : atomSubscriptions[S][f] # {})

C10_LastWriteOnce ==
  (/\ last.op = "commit" /\ ~isPaused[S] /\ middlewares[S] = <<>>
   /\ last.error # "AdapterError")
    => \A i \in 1 .. Len(last.entries) :
         last.entries[i][1] \in last.rewritten
           => /\ state[S][last.entries[i][1]] = last.entries[i][2]
              /\ OneEvent(last.entries[i][1], last.entries[i][2])

\* The last call was a commit or rollback of a transaction object that the call
\* before it, a rollback or a commit that applied every entry, had finished.
OnFinished ==
  /\ last.op \in {"commit", "rollback"}
  /\ \/ last.txPrev = "rollback"
     \/ last.txPrev = "commit" /\ last.entries = <<>>

\* C11: a call on a transaction that was committed or rolled back before (here: a
\* commit or a rollback) is reported as an error and changes neither the store nor
\* the transaction.
C11_FinishedIsTerminal ==
  OnFinished => /\ last.error # "none"
                /\ state[S] = last.pre
                /\ tx[S] = NewTransaction

\* The entry of the commit that raised the error: a validation error is raised before
\* the entry's snapshot replacement, every other one after it.
FailedEntry ==
  IF last.error = "ZodError" THEN Len(last.applied) + 1 ELSE Len(last.applied)

\* C12: when applying an interior entry of a commit raises an error, the entries
\* before it stay applied (values held, events delivered), the failing entry and
\* those after it are not applied, and the error is raised to the caller.
C12_PartialCommitKept ==
  (last.op = "commit" /\ last.error # "none" /\ FailedEntry >= 2)
    => /\ \A i \in 1 .. FailedEntry - 1 :
            /\ state[S][last.entries[i][1]] = last.entries[i][2]
            /\ OneEvent(last.entries[i][1], last.entries[i][2])
       /\ \A i \in FailedEntry .. Len(last.entries) :
            /\ state[S][last.entries[i][1]] = last.pre[last.entries[i][1]]
            /\ OneEvent(last.entries[i][1], last.entries[i][2])
                 => atomSubscriptions[S][last.entries[i][1]] = {}

\* C13: a subscribed selector whose dependency set is {a} is given a newly computed
\* value by every applied change of a, and its compute function is not called by an
\* applied change of a field outside the set (no adapter call threw).
C13_SelectorFollowsDeps ==
  (/\ last.op = "remote" /\ last.applied # <<>> /\ last.error # "AdapterError"
   /\ selectorCache[S]["sel"].reg /\ selectorCache[S]["sel"].deps = {"a"}
   /\ selectorSubscriptions[S]["sel"] # {})
    => IF F = "a"
         THEN last.selNotified =
                <<[sel |-> "sel", to |-> selectorSubscriptions[S]["sel"],
                   value |-> SelectorFn("sel", state[S])]>>
         ELSE last.computed = <<>> /\ last.selNotified = <<>>

\* The calls of sendChange and of set the last operation made that returned: those
\* that took effect and those whose promise was rejected.
SendCalls == Len(last.sent) + (IF "sync" \in last.logged THEN 1 ELSE 0)

SetCalls == Len(last.persisted) + (IF "persist" \in last.logged THEN 1 ELSE 0)

\* C14: an optimistic local change is applied and delivered to the subscribers at
\* once and is never passed to sendChange; a local change that is not optimistic is
\* passed to sendChange exactly once (no adapter call threw).
C14_OptimisticNotSent ==
  (/\ last.op = "update" /\ last.value \in Values /\ ~isPaused[S]
   /\ MwUnchanged(LastEvent) /\ config[S].sync # "none"
   /\ last.error # "AdapterError")
    => IF last.optimistic
         THEN /\ state[S][F] = last.value
              /\ OneEvent(F, last.value)
              /\ SendCalls = 0
         ELSE SendCalls = 1

\* C15: set is called for an applied change exactly when the change is not
\* optimistic: an applied optimistic change writes nothing to storage, any other
\* applied change writes the field's new value under the field's key.
C15_PersistIffNotOptimistic ==
  (/\ last.op \in {"update", "remote"} /\ last.applied # <<>>
   /\ config[S].storage # "none" /\ last.error # "AdapterError")
    => IF last.optimistic
         THEN SetCalls = 0
         ELSE /\ SetCalls = 1
              /\ last.persisted # <<>> => last.persisted = <<<<F, state[S][F]>>>>

\* C16: a change event whose atomId is no field of the schema is a no-op: the
\* snapshot is unchanged, no subscriber is notified, nothing is persisted, sent or
\* appended to the timeline, and no error is raised.
C16_UnknownFieldNoOp ==
  (last.op = "remote" /\ F \notin Fields) => (Untouched /\ last.error = "none")

\* C17: in every reachable state the keys of the current snapshot are the keys of
\* the schema, none missing and none extra.
C17_SnapshotKeys == \A s \in Stores : DOMAIN state[s] = Fields

\* The values the last operation wrote to field f of the snapshot, in order, and the
\* newValues of the events it delivered to callback u for f, in order.
Written(f) ==
  LET a == SelectSeq(last.applied, LAMBDA e : e[1] = f) IN
  [i \in 1 .. Len(a) |-> a[i][2]]

Seen(u, f) ==
  LET n == SelectSeq(last.notified, LAMBDA d : d.to = u /\ d.ev.atomId = f) IN
  [i \in 1 .. Len(n) |-> n[i].ev.newValue]

\* C18: changes take effect in invocation order and do not interleave: also when a
\* subscriber's callback issues an update while it is notified, every subscriber of
\* a field observes the field's events in the order the changes were applied to
\* the snapshot, each with the newValue that change wrote.
C18_EventsInApplyOrder ==
  (last.op = "update" /\ last.error = "none")
    => \A f \in Fields : \A u \in atomSubscriptions[S][f] : Seen(u, f) = Written(f)

\* C19: the snapshot object is replaced, never written to: the object a reader
\* kept (the state argument of a selector call) holds the field values it held
\* when the reader got it.
C19_CapturedUnchanged ==
  \A s \in Stores : captured[s].held => captured[s].now = captured[s].seen

\* A change was handed to the store while it was paused: a valid local update, an
\* event from the transport, or the commit of a transaction.
PausedChange ==
  /\ isPaused[S]
  /\ \/ last.op = "update" /\ last.value \in Values
     \/ last.op = "remote"
     \/ last.op = "commit"

\* C20: a change made while the store is paused is dropped: snapshot, timeline,
\* storage, transport and subscribers are left alone and nothing is thrown or
\* logged; the entries of a transaction committed during the pause are gone with
\* the commit, and un-pausing applies nothing.
C20_PausedChangesDropped ==
  /\ PausedChange => Untouched /\ last.error = "none" /\ last.logged = {}
  /\ (isPaused[S] /\ last.op = "commit") => tx[S] = NewTransaction
  /\ last.op = "togglePause" => Untouched

\* A paused store with a storage, a transport and a subscriber of the field is
\* given a valid update to a value the field does not hold.
C20_Witness ==
  /\ isPaused[S] /\ last.op = "update" /\ last.value \in Values
  /\ last.value # last.pre[F] /\ ~last.optimistic
  /\ atomSubscriptions[S][F] # {}
  /\ config[S].storage # "none" /\ config[S].sync # "none"
  /\ state[S][F] = last.pre[F]

\* C30: a middleware removed while a change is in the pipeline does not change what
\* happens to that change: where no middleware vetoes, every middleware that was
\* registered when the change entered is called for it, once and in order.
C30_RemovalInFlight ==
  (/\ last.op = "update" /\ last.value \in Values /\ ~isPaused[S]
   /\ \A i \in 1 .. Len(last.registered) : last.registered[i] # "drop")
  => last.ran = last.registered

\* Where middleware k stood in the array when the last operation began.
Position(k) == CHOOSE p \in 1 .. Len(last.registered) : last.registered[p] = k

\* The middlewares up to and with the first one that vetoes.
RECURSIVE UpToVeto(_, _)
UpToVeto(mws, i) ==
  IF i > Len(mws) THEN mws
  ELSE IF mws[i] = "drop" THEN SubSeq(mws, 1, i) ELSE UpToVeto(mws, i + 1)

C21_EntryPerChange ==
  /\ (last.op = "update" /\ config[S].timeTravel /\ last.error # "AdapterError") =>
       /\ last.appended = Len(last.applied)
       /\ last.appended = 1 => timeline[S][Len(timeline[S])].snapshot = state[S]
  /\ last.op = "clearTimeline" => timeline[S] = <<>> /\ state[S] = last.pre

\* The entry the last operation travelled to.
Target == timeline[S][last.value]

\* C22: travelTo with the id of an entry makes the snapshot that entry's snapshot,
\* calls every callback of every field once, with prevValue undefined and the
\* restored value as newValue, and leaves the timeline as it is; travelTo with an id
\* no entry has changes nothing.
C22_TravelRestores ==
  last.op = "travelTo" =>
    /\ last.appended = 0 /\ last.persisted = <<>> /\ last.error = "none"
    /\ last.value \notin 1 .. Len(timeline[S]) => Untouched
    /\ last.value \in 1 .. Len(timeline[S]) =>
         /\ state[S] = Target.snapshot
         /\ \A f \in Fields : \A u \in atomSubscriptions[S][f] :
              \E k \in 1 .. Len(last.notified) :
                /\ last.notified[k] =
                     [to |-> u,
                      ev |-> [atomId |-> f, prevValue |-> Undefined,
                              newValue |-> Target.snapshot[f], source |-> S,
                              optimistic |-> FALSE]]
                /\ \A k2 \in 1 .. Len(last.notified) :
                     (last.notified[k2].to = u /\ last.notified[k2].ev.atomId = f)
                       => k2 = k

\* The value field f held right before the k-th snapshot replacement of the last
\* operation.
RECURSIVE Before(_, _)
Before(f, k) ==
  IF k <= 1 THEN last.pre[f]
  ELSE IF last.applied[k - 1][1] = f THEN last.applied[k - 1][2]
  ELSE Before(f, k - 1)

\* C24: every event a subscriber is given by an applied change carries the value
\* the field held right before that change as prevValue and the value the change
\* wrote as newValue.
C24_EventValues ==
  (last.op = "update" /\ last.error = "none") =>
    \A n \in 1 .. Len(last.notified) :
      \E k \in 1 .. Len(last.applied) :
        /\ last.applied[k][1] = last.notified[n].ev.atomId
        /\ last.applied[k][2] = last.notified[n].ev.newValue
        /\ Before(last.applied[k][1], k) = last.notified[n].ev.prevValue

\* C25: after resetState on a store that is not paused every field holds its
\* default, and each subscriber of a field was given one event, from the value the
\* field held before the reset to the default.
C25_ResetToDefaults ==
  (last.op = "reset" /\ ~isPaused[S] /\ last.error # "AdapterError") =>
    \A f \in Fields :
      /\ state[S][f] = DefaultValue(f)
      /\ \A u \in atomSubscriptions[S][f] :
           LET n == SelectSeq(last.notified,
                              LAMBDA d : d.to = u /\ d.ev.atomId = f)
           IN /\ Len(n) = 1
              /\ n[1].ev.prevValue = last.pre[f]
              /\ n[1].ev.newValue = DefaultValue(f)

\* The override the last operation was given for key k, if it passes validation.
ValidOverride(k) ==
  {last.entries[i][2] : i \in {j \in 1 .. Len(last.entries) :
                                 /\ last.entries[j][1] = k
                                 /\ Validate(k, last.entries[j][2]).ok}}

\* C26: the first snapshot of a store has the schema's fields and no other key;
\* a field holds its override where one was given that passes the field's
\* validation, and its default otherwise; no override makes the creation fail.
C26_InitialSnapshot ==
  last.op = "create" =>
    /\ last.error = "none"
    /\ DOMAIN state[S] = Fields
    /\ \A f \in Fields :
         IF ValidOverride(f) = {} THEN state[S][f] = DefaultValue(f)
                                  ELSE state[S][f] \in ValidOverride(f)

\* A store is created with an override that fails validation, one that passes and
\* is not the default, one for a key outside the schema and one for a key of
\* Object.prototype.
C26_Witness ==
  /\ last.op = "create" /\ Len(last.entries) = 4
  /\ last.entries[1] = <<"a", Invalid>>
  /\ last.entries[2][2] \in Values \ {DefaultValue("b")}
  /\ state[S]["b"] = last.entries[2][2]
  /\ "initial" \in last.logged

\* C27: a selector that lost its last callback keeps its registration and its
\* dependencies; a subscription to a registered selector does not infer the
\* dependencies again, and the selector is computed for changes of the same fields
\* as before.
C27_SelectorKept ==
  /\ [](\A sel \in Selectors :
          /\ (last.op = "unsubscribeFromSelector" /\ last.atomId = sel)
               => /\ selectorSubscriptions[S][sel] = {}
                  /\ selectorCache[S][sel] = [reg |-> TRUE, deps |-> SelectorReads(sel)]
          /\ (last.op = "update" /\ last.applied # <<>>)
               => (sel \in {last.computed[i] : i \in 1 .. Len(last.computed)}
                     <=> selectorCache[S][sel].reg /\ F \in SelectorReads(sel)))
  /\ [][\A s \in Stores, sel \in Selectors :
          selectorCache[s][sel].reg =>
            /\ selectorCache'[s][sel] = selectorCache[s][sel]
            /\ (last'.op = "subscribeToSelector" /\ last'.store = s
                   /\ last'.atomId = sel)
                 => last'.trace = <<"compute">>]_vars

\* The callback of a selector subscribes again after it had unsubscribed as the
\* selector's last one.
C27_Witness ==
  /\ last.op = "subscribeToSelector" /\ last.trace = <<"compute">>
  /\ selectorSubscriptions[S][last.atomId] # {}
  /\ selectorCache[S][last.atomId].reg

\* C28: a handler that calls begin(), update(field, value) once or more and
\* commit() in a row leaves every one of its values in the snapshot and the hook
\* not active.
C28_HandlerCommits ==
  (last.op = "submit" /\ ~isPaused[S]) =>
    /\ \A i \in 1 .. Len(last.entries) :
         state[S][last.entries[i][1]] = last.entries[i][2]
    /\ ~hook[S].isActive

\* The place of a side effect in the stated order: middleware pipeline, snapshot
\* replacement, persistence and synchronization, selectors, atom subscribers,
\* timeline.
Rank(step) ==
  CASE step = "middleware" -> 1
    [] step = "snapshot" -> 2
    [] step \in {"storage", "sync"} -> 3
    [] step = "selector" -> 4
    [] step = "subscriber" -> 5
    [] step = "timeline" -> 6

\* C29: the side effects of one applied change come in this order: middlewares,
\* snapshot replacement, storage and transport calls, selector computation, atom
\* subscriber calls, timeline append; so a callback is called before the change's
\* entry is in the timeline.
C29_EffectOrder ==
  (last.op = "update" /\ Len(last.applied) = 1 /\ last.error = "none") =>
    \A i, j \in 1 .. Len(last.trace) :
      i < j => Rank(last.trace[i]) <= Rank(last.trace[j])

\* The event that came out of the last middleware for the last operation's event.
Out == applyMiddlewares(last.registered, 1, LastEvent).change

\* C31: when the middlewares hand on a modified event, the store applies the event
\* that came out of the last of them: its field is the one replaced, its value the
\* one written and persisted, its optimistic flag decides whether it is sent, and
\* it is the event sent and the one given to the subscribers of its field.
C31_ModifiedEventApplied ==
  (last.op = "update" /\ last.error = "none" /\ ~isPaused[S]) =>
    /\ last.applied = << <<Out.atomId, Out.newValue>> >>
    /\ last.persisted = << <<Out.atomId, Out.newValue>> >>
    /\ last.sent = IF Out.optimistic THEN <<>> ELSE <<Out>>
    /\ {last.notified[i].to : i \in 1 .. Len(last.notified)}
         = atomSubscriptions[S][Out.atomId]
    /\ \A i \in 1 .. Len(last.notified) :
         /\ last.notified[i].ev.atomId = Out.atomId
         /\ last.notified[i].ev.newValue = Out.newValue

\* C32: the change of a field computes no selector that has no subscriber: every
\* selector an update computed has a callback subscribed.
C32_NoIdleCompute ==
  last.op = "update" =>
    \A i \in 1 .. Len(last.computed) :
      selectorSubscriptions[S][last.computed[i]] # {}

\* C33: in every reachable state every field of every snapshot holds a value its
\* validator accepts.
C33_SnapshotValid ==
  \A s \in Stores : \A f \in Fields : Validate(f, state[s][f]).ok

\* C34: when no message is in flight, the stores on the transport hold the same
\* value for every field, whatever updates they made concurrently.
C34_Converged ==
  net = EmptyBag =>
    \A s, t \in Connected : \A f \in Fields : state[s][f] = state[t][f]

\* C35: with three stores on a transport that delivers each sent change to every
\* other store, one local update is followed by a state in which no message is in
\* flight.
C35_Quiescence == (last.op = "update") ~> (net = EmptyBag)

\* C36: a local update of one field that raises an error to its caller, whatever
\* the error, leaves the snapshot as it was and has notified no atom subscriber and
\* no selector subscriber.
C36_ErrorAtomic ==
  (last.op = "update" /\ last.error # "none") =>
    /\ state[S] = last.pre
    /\ last.notified = <<>> /\ last.selNotified = <<>>

\* What the callbacks of selector sel were given in the last operation, in order.
Delivered(sel) == SelectSeq(last.selNotified, LAMBDA d : d.sel = sel)

\* C37: the value last delivered to the subscribers of a selector is the selector
\* applied to the current snapshot: an operation that leaves the store with another
\* value of a subscribed selector whose dependencies cover the fields it reads
\* (an update, a commit, a remote event, travelTo, a step of the startup load) has
\* delivered that value to the selector's subscribers, and delivered it last.
C37_SelectorCoherent ==
  \A sel \in Selectors :
    (/\ selectorSubscriptions[S][sel] # {}
     /\ SelectorReads(sel) \subseteq selectorCache[S][sel].deps
     /\ SelectorFn(sel, state[S]) # SelectorFn(sel, last.pre))
      => /\ Delivered(sel) # <<>>
         /\ Delivered(sel)[Len(Delivered(sel))].value = SelectorFn(sel, state[S])
         /\ Delivered(sel)[Len(Delivered(sel))].to = selectorSubscriptions[S][sel]

\* C38: the startup load never overwrites a newer value: a step of the load for
\* field F that comes right after an applied update of F leaves F at the value of
\* that update; and every value a step of the load installs is given to every atom
\* subscriber of its field.
C38_LoadKeepsNewer ==
  [][last'.op = "load" =>
       LET s == last'.store
           f == last'.atomId
       IN /\ (last.op = "update" /\ last.atomId = f /\ last.applied # <<>>)
               => state'[s][f] = state[s][f]
          /\ state'[s][f] # state[s][f]
               => {last'.notified[i].to : i \in 1 .. Len(last'.notified)}
                    = atomSubscriptions[s][f]]_vars

\* C39: after dispose() no atom or selector subscriber that subscribed before it
\* is called again, no selector function is computed again and no event from the
\* transport changes the snapshot, whether the adapter's close removes the
\* listeners or not.
C39_DisposedIsInert ==
  (disposed[S] /\ last.op \in {"update", "remote"}) =>
    /\ last.notified = <<>> /\ last.selNotified = <<>>
    /\ last.computed = <<>>
    /\ last.op = "remote" => state[S] = last.pre

\* C40: once close() was called on the websocket adapter no WebSocket is made and
\* no reconnect timer is pending, whenever the close event of the closed socket
\* comes; before close() a lost connection leaves a reconnect timer pending, and
\* there is never more than one.
C40_ClosedStaysClosed ==
  /\ ws.closed => (Len(ws.socks) = ws.atClose /\ ws.timers = 0)
  /\ (last.op = "ws.lost" /\ ~ws.closed) => ws.timers = 1
  /\ ws.timers <= 1

====
